---- MODULE Spec2Model ----
(***************************************************************************)
(* Model of the rule engine of email_rule_ops (src/rule_engine.py): the    *)
(* condition evaluator, the date comparator, the rule evaluator, the       *)
(* action executor with its per-mutation commit, and the processing loop   *)
(* with its statistics and audit log.                                      *)
(*                                                                         *)
(* Python strings that the code inspects (lower(), `in`, split, join) are  *)
(* sequences of one-character strings.  JSON values read from the rules    *)
(* file are tagged records, so that entries of the wrong shape can be      *)
(* given to the code.  Time is counted in days (proleptic ordinal).        *)
(***************************************************************************)
EXTENDS Integers, Sequences, FiniteSets, TLC

VARIABLES
    pc,          \* position of process_emails: start, loop, act, handler, done, raised
    rules,       \* RuleEngine.rules, as loaded by _load_rules
    stored,      \* the rows of table emails as committed in the database
    emails,      \* the Email objects of the session (the list process_emails iterates)
    audit,       \* the committed rows of table rule_executions, oldest first
    stats,       \* the stats dictionary of process_emails
    ei,          \* index of the current email in emails
    ri,          \* index of the current rule in rules
    ai,          \* index of the next action of the current rule
    performed,   \* performed_actions of the running execute_actions
    exc,         \* the exception being handled (its text), "" when none
    now,         \* datetime.utcnow(), in days
    failures,    \* the number of commits that have failed so far
    last,        \* what the last step did (trace of the last operation)
    pairs,       \* history: the outcome of every (email, rule) pair handled so far
    cin,         \* the arguments of the last evaluator call: condition, rule, email
    cout,        \* what that call returned or raised
    rules_file,  \* the rules file the engine was constructed on
    run,         \* the number of calls of process_emails so far
    before,      \* history: the committed rows when the current run began
    base,        \* history: the number of audit rows when the current run began
    prev,        \* history: the pairs of the run before the current one
    stored_count,  \* EmailFetcher.store_emails: the local stored_count
    session_new    \* EmailFetcher.session: the objects added and not yet flushed

vars == <<pc, rules, stored, emails, audit, stats, ei, ri, ai, performed, exc,
          now, failures, last, pairs, cin, cout, rules_file, run, before, base, prev,
          stored_count, session_new>>

\* the variables that only change when a run begins
hist == <<rules_file, run, before, base, prev>>

\* the variables of the fetcher, which the engine does not touch
fetcher == <<stored_count, session_new>>

-----------------------------------------------------------------------------
(* Python values *)

Absent == [t |-> "absent", s |-> <<>>, n |-> 0]
Null == [t |-> "null", s |-> <<>>, n |-> 0]
Str(x) == [t |-> "str", s |-> x, n |-> 0]
Num(k) == [t |-> "int", s |-> <<>>, n |-> k]
List(k) == [t |-> "list", s |-> <<>>, n |-> k]
DateTime(d) == [t |-> "datetime", s |-> <<>>, n |-> d]

\* dict.get(key): None when the key is absent
Get(v) == IF v.t = "absent" THEN Null ELSE v

\* dict.get(key, default)
GetDefault(v, d) == IF v.t = "absent" THEN d ELSE v

\* bool(v)
Truthy(v) ==
    CASE v.t \in {"absent", "null"} -> FALSE
      [] v.t = "str" -> v.s # <<>>
      [] v.t = "int" -> v.n # 0
      [] v.t = "list" -> v.n > 0
      [] OTHER -> TRUE

\* the result of a call: a value, or an exception with its text
Ok(v) == [exc |-> "", val |-> v]
Raise(e) == [exc |-> e, val |-> FALSE]

-----------------------------------------------------------------------------
(* str methods *)

UpperCase == <<"A","B","C","D","E","F","G","H","I","J","K","L","M",
               "N","O","P","Q","R","S","T","U","V","W","X","Y","Z">>
LowerCase == <<"a","b","c","d","e","f","g","h","i","j","k","l","m",
               "n","o","p","q","r","s","t","u","v","w","x","y","z">>

LowerChar(c) ==
    IF \E i \in DOMAIN UpperCase : UpperCase[i] = c
    THEN LowerCase[CHOOSE i \in DOMAIN UpperCase : UpperCase[i] = c]
    ELSE c

\* str.lower()
Lower(s) == [i \in DOMAIN s |-> LowerChar(s[i])]

\* a in b, for two strings
Contains(a, b) ==
    \E i \in 0..(Len(b) - Len(a)) : SubSeq(b, i + 1, i + Len(a)) = a

IsSpace(c) == c \in {" ", "\t", "\n"}

\* str.strip().split(): the maximal runs of non-whitespace characters
RECURSIVE Tokens(_, _)
Tokens(s, cur) ==
    IF s = <<>> THEN (IF cur = <<>> THEN <<>> ELSE <<cur>>)
    ELSE IF IsSpace(Head(s))
         THEN (IF cur = <<>> THEN <<>> ELSE <<cur>>) \o Tokens(Tail(s), <<>>)
         ELSE Tokens(Tail(s), Append(cur, Head(s)))

\* str.split(sep) for a one-character separator: empty pieces are kept
RECURSIVE SplitOn(_, _, _)
SplitOn(s, sep, cur) ==
    IF s = <<>> THEN <<cur>>
    ELSE IF Head(s) = sep
         THEN <<cur>> \o SplitOn(Tail(s), sep, <<>>)
         ELSE SplitOn(Tail(s), sep, Append(cur, Head(s)))

\* sep.join(list)
RECURSIVE Join(_, _)
Join(list, sep) ==
    IF list = <<>> THEN <<>>
    ELSE IF Len(list) = 1 THEN list[1]
    ELSE list[1] \o <<sep>> \o Join(Tail(list), sep)

Digits == <<"0","1","2","3","4","5","6","7","8","9">>
IsDigit(c) == \E i \in DOMAIN Digits : Digits[i] = c
DigitVal(c) == (CHOOSE i \in DOMAIN Digits : Digits[i] = c) - 1

RECURSIVE DigitsValue(_, _)
DigitsValue(s, acc) ==
    IF s = <<>> THEN acc
    ELSE IF Head(s) = "_" THEN DigitsValue(Tail(s), acc)
    ELSE DigitsValue(Tail(s), 10 * acc + DigitVal(Head(s)))

\* int(token): an optional sign, then digits, single underscores allowed
\* between digits; anything else is a ValueError (ok = FALSE)
ParseInt(tok) ==
    LET signed == tok # <<>> /\ Head(tok) \in {"+", "-"}
        body == IF signed THEN Tail(tok) ELSE tok
        wellformed ==
            /\ body # <<>>
            /\ \A i \in DOMAIN body : IsDigit(body[i]) \/ body[i] = "_"
            /\ IsDigit(body[1]) /\ IsDigit(body[Len(body)])
            /\ \A i \in 1..(Len(body) - 1) : ~(body[i] = "_" /\ body[i + 1] = "_")
    IN IF ~wellformed THEN [ok |-> FALSE, n |-> 0]
       ELSE [ok |-> TRUE,
             n |-> IF signed /\ Head(tok) = "-"
                   THEN 0 - DigitsValue(body, 0) ELSE DigitsValue(body, 0)]

-----------------------------------------------------------------------------
(* the literals of rule_engine.py *)

kFrom == <<"F","r","o","m">>
kTo == <<"T","o">>
kSubject == <<"S","u","b","j","e","c","t">>
kMessage == <<"M","e","s","s","a","g","e">>
kReceived == <<"R","e","c","e","i","v","e","d"," ","D","a","t","e","/","T","i","m","e">>
kContains == <<"c","o","n","t","a","i","n","s">>
kNotContains == <<"d","o","e","s"," ","n","o","t"," ","c","o","n","t","a","i","n">>
kEquals == <<"e","q","u","a","l","s">>
kNotEquals == <<"d","o","e","s"," ","n","o","t"," ","e","q","u","a","l">>
kLessThan == <<"l","e","s","s"," ","t","h","a","n">>
kGreaterThan == <<"g","r","e","a","t","e","r"," ","t","h","a","n">>
kAll == <<"A","l","l">>
kAny == <<"A","n","y">>
kMarkRead == <<"m","a","r","k"," ","a","s"," ","r","e","a","d">>
kMarkUnread == <<"m","a","r","k"," ","a","s"," ","u","n","r","e","a","d">>
kMove == <<"m","o","v","e"," ","m","e","s","s","a","g","e">>
kUnnamedRule == <<"U","n","n","a","m","e","d"," ","R","u","l","e">>
uDay == <<"d","a","y">>
uDays == <<"d","a","y","s">>
uMonth == <<"m","o","n","t","h">>
uMonths == <<"m","o","n","t","h","s">>

\* timedelta(days=n) raises OverflowError beyond this magnitude
TimedeltaMaxDays == 999999999
\* datetime.min and datetime.max, as day ordinals
DateMinOrdinal == 1
DateMaxOrdinal == 3652059
\* a month is taken as 30 days
DaysPerMonth == 30

errNoGet == "AttributeError: object has no attribute 'get'"
errNoLower == "AttributeError: object has no attribute 'lower'"
errUnhashable == "TypeError: unhashable type"
errNotComparable == "TypeError: '<' or '>' not supported between str and datetime"
errOverflow == "OverflowError: date value out of range"
errNotIterable == "TypeError: object is not iterable"

-----------------------------------------------------------------------------
(* RuleEngine._compare_dates *)

\* faulty variant: the final else of the unit test is lost, so every other unit counts as months
compare_dates_any_unit(email_date, condition_value, operator, utcnow) ==
    IF condition_value.t # "str" THEN Ok(FALSE)      \* AttributeError, caught
    ELSE
    LET parts == Tokens(condition_value.s, <<>>)
    IN IF Len(parts) # 2 THEN Ok(FALSE)
       ELSE
       LET number == ParseInt(parts[1])
           unit == Lower(parts[2])
       IN IF ~number.ok THEN Ok(FALSE)               \* ValueError, caught
          ELSE
          LET perUnit == IF unit \in {uDay, uDays} THEN 1 ELSE DaysPerMonth
              mag == IF number.n < 0 THEN 0 - number.n ELSE number.n
          IN IF mag > TimedeltaMaxDays \div perUnit
             THEN Raise(errOverflow)                 \* OverflowError is not caught
             ELSE
             LET threshold == utcnow - number.n * perUnit
             IN IF threshold < DateMinOrdinal \/ threshold > DateMaxOrdinal
                THEN Raise(errOverflow)
                ELSE IF email_date.t # "datetime"
                THEN Raise(errNotComparable)         \* TypeError is not caught
                ELSE IF operator = "less"
                THEN Ok(email_date.n < threshold)
                ELSE Ok(email_date.n > threshold)
compare_dates(email_date, condition_value, operator, utcnow) ==
    IF condition_value.t # "str" THEN Ok(FALSE)      \* AttributeError, caught
    ELSE
    LET parts == Tokens(condition_value.s, <<>>)
    IN IF Len(parts) # 2 THEN Ok(FALSE)
       ELSE
       LET number == ParseInt(parts[1])
           unit == Lower(parts[2])
       IN IF ~number.ok THEN Ok(FALSE)               \* ValueError, caught
          ELSE IF unit \notin {uDay, uDays, uMonth, uMonths} THEN Ok(FALSE)
          ELSE
          LET perUnit == IF unit \in {uDay, uDays} THEN 1 ELSE DaysPerMonth
              mag == IF number.n < 0 THEN 0 - number.n ELSE number.n
          IN IF mag > TimedeltaMaxDays \div perUnit
             THEN Raise(errOverflow)                 \* OverflowError is not caught
             ELSE
             LET threshold == utcnow - number.n * perUnit
             IN IF threshold < DateMinOrdinal \/ threshold > DateMaxOrdinal
                THEN Raise(errOverflow)
                ELSE IF email_date.t # "datetime"
                THEN Raise(errNotComparable)         \* TypeError is not caught
                ELSE IF operator = "less"
                THEN Ok(email_date.n < threshold)
                ELSE Ok(email_date.n > threshold)
-----------------------------------------------------------------------------
(* RuleEngine._get_field_value, _evaluate_condition, evaluate_rule *)

\* x or ''
OrEmpty(v) == IF Truthy(v) THEN v ELSE Str(<<>>)

\* faulty variant: the default of the lookup is the sender, not ''
get_field_value_default_from(email, field) ==
    IF field.t = "list" THEN Raise(errUnhashable)
    ELSE IF field.t = "str" /\ field.s = kTo THEN Ok(OrEmpty(email.to_address))
    ELSE IF field.t = "str" /\ field.s = kSubject THEN Ok(OrEmpty(email.subject))
    ELSE IF field.t = "str" /\ field.s = kMessage THEN Ok(OrEmpty(email.message_body))
    ELSE IF field.t = "str" /\ field.s = kReceived THEN Ok(DateTime(email.received_date))
    ELSE Ok(OrEmpty(email.from_address))

\* an Email row: the nullable string columns hold Str(..) or Null
get_field_value(email, field) ==
    IF field.t = "list" THEN Raise(errUnhashable)    \* dict.get of an unhashable key
    ELSE IF field.t # "str" THEN Ok(Str(<<>>))
    ELSE IF field.s = kFrom THEN Ok(OrEmpty(email.from_address))
    ELSE IF field.s = kTo THEN Ok(OrEmpty(email.to_address))
    ELSE IF field.s = kSubject THEN Ok(OrEmpty(email.subject))
    ELSE IF field.s = kMessage THEN Ok(OrEmpty(email.message_body))
    ELSE IF field.s = kReceived THEN Ok(DateTime(email.received_date))
    ELSE Ok(Str(<<>>))

\* lines 80-97: the field lookup and the operator
apply_predicate(field, predicate, value, email, utcnow) ==
    LET fv == get_field_value(email, field)
        field_value == fv.val
        bothStr == value.t = "str" /\ field_value.t = "str"
    IN IF fv.exc # "" THEN fv
       ELSE IF predicate.t # "str" THEN Ok(FALSE)
       ELSE IF predicate.s = kContains
       THEN IF bothStr THEN Ok(Contains(Lower(value.s), Lower(field_value.s)))
            ELSE Raise(errNoLower)
       ELSE IF predicate.s = kNotContains
       THEN IF bothStr THEN Ok(~Contains(Lower(value.s), Lower(field_value.s)))
            ELSE Raise(errNoLower)
       ELSE IF predicate.s = kEquals
       THEN IF bothStr THEN Ok(Lower(field_value.s) = Lower(value.s))
            ELSE Raise(errNoLower)
       ELSE IF predicate.s = kNotEquals
       THEN IF bothStr THEN Ok(Lower(field_value.s) # Lower(value.s))
            ELSE Raise(errNoLower)
       ELSE IF predicate.s = kLessThan
       THEN compare_dates(field_value, value, "less", utcnow)
       ELSE IF predicate.s = kGreaterThan
       THEN compare_dates(field_value, value, "greater", utcnow)
       ELSE Ok(FALSE)

\* faulty variant: the test of the three entries is lost
evaluate_condition_unguarded(condition, email, utcnow) ==
    IF condition.t # "dict" THEN Raise(errNoGet)
    ELSE apply_predicate(Get(condition.field), Get(condition.predicate),
                         Get(condition.value), email, utcnow)

\* a condition entry: t = "dict" with the three keys (Absent when the key is
\* missing), or an entry that is no JSON object
evaluate_condition(condition, email, utcnow) ==
    IF condition.t # "dict" THEN Raise(errNoGet)
    ELSE
    LET field == Get(condition.field)
        predicate == Get(condition.predicate)
        value == Get(condition.value)
    IN IF ~(Truthy(field) /\ Truthy(predicate) /\ Truthy(value)) THEN Ok(FALSE)
       ELSE apply_predicate(field, predicate, value, email, utcnow)

\* faulty variant: All is answered like Any
combine_results_any(predicate, results) == \E i \in DOMAIN results : results[i]

\* faulty variant: Any is answered like All
combine_results_all(predicate, results) == \A i \in DOMAIN results : results[i]

\* faulty variant: the predicate is compared without regard to case
combine_results_ignore_case(predicate, results) ==
    IF predicate.t = "str" /\ Lower(predicate.s) = Lower(kAll)
    THEN \A i \in DOMAIN results : results[i]
    ELSE \E i \in DOMAIN results : results[i]

\* lines 59-62: all(results) when the predicate is 'All', any(results) otherwise
combine_results(predicate, results) ==
    IF predicate.t = "str" /\ predicate.s = kAll
    THEN \A i \in DOMAIN results : results[i]
    ELSE \E i \in DOMAIN results : results[i]

\* faulty variant: a message that is already read is taken not to match
evaluate_rule_skip_read(rule, email, utcnow) ==
    IF rule.t # "dict" THEN Raise(errNoGet)
    ELSE IF email.is_read THEN Ok(FALSE)
    ELSE
    LET conditions == rule.conditions
        predicate == GetDefault(rule.predicate, Str(kAll))
    IN IF conditions.t \in {"absent", "null"} THEN Ok(FALSE)
       ELSE IF conditions.t = "int"
       THEN IF conditions.n = 0 THEN Ok(FALSE) ELSE Raise(errNotIterable)
       ELSE IF conditions.items = <<>> THEN Ok(FALSE)
       ELSE
       LET results == [i \in DOMAIN conditions.items |->
                          evaluate_condition(conditions.items[i], email, utcnow)]
           raising == {i \in DOMAIN results : results[i].exc # ""}
       IN IF raising # {}
          THEN results[CHOOSE i \in raising : \A j \in raising : i <= j]
          ELSE Ok(combine_results(predicate, [i \in DOMAIN results |-> results[i].val]))

\* faulty variant: the test of the empty condition list is lost
evaluate_rule_no_empty_test(rule, email, utcnow) ==
    IF rule.t # "dict" THEN Raise(errNoGet)
    ELSE
    LET conditions == rule.conditions
        predicate == GetDefault(rule.predicate, Str(kAll))
    IN IF conditions.t = "null" THEN Raise(errNotIterable)
       ELSE IF conditions.t = "int" THEN Raise(errNotIterable)
       ELSE
       LET results == [i \in DOMAIN conditions.items |->
                          evaluate_condition(conditions.items[i], email, utcnow)]
           raising == {i \in DOMAIN results : results[i].exc # ""}
       IN IF raising # {}
          THEN results[CHOOSE i \in raising : \A j \in raising : i <= j]
          ELSE Ok(combine_results(predicate, [i \in DOMAIN results |-> results[i].val]))

\* a rule entry: t = "dict" with keys name, predicate, conditions, actions, or
\* an entry that is no JSON object.  conditions is [t, items]: a list of
\* condition entries, or Absent/Null, or a number (not iterable)
evaluate_rule(rule, email, utcnow) ==
    IF rule.t # "dict" THEN Raise(errNoGet)
    ELSE
    LET conditions == rule.conditions
        predicate == GetDefault(rule.predicate, Str(kAll))
    IN IF conditions.t \in {"absent", "null"} THEN Ok(FALSE)
       ELSE IF conditions.t = "int"
       THEN IF conditions.n = 0 THEN Ok(FALSE) ELSE Raise(errNotIterable)
       ELSE IF conditions.items = <<>> THEN Ok(FALSE)
       ELSE
       LET results == [i \in DOMAIN conditions.items |->
                          evaluate_condition(conditions.items[i], email, utcnow)]
           raising == {i \in DOMAIN results : results[i].exc # ""}
       IN IF raising # {}
          THEN results[CHOOSE i \in raising : \A j \in raising : i <= j]
          ELSE Ok(combine_results(predicate, [i \in DOMAIN results |-> results[i].val]))
-----------------------------------------------------------------------------
(* the mutators: each works on the Email object of the session (obj) and   *)
(* the committed row (row).  session.commit() writes the object to the     *)
(* row; when it raises (fail), session.rollback() expires the object, which*)
(* then reads as the committed row again.                                  *)

\* faulty variant: no rollback after a failed commit, the object stays changed
mark_as_read_no_rollback(obj, row, fail, utcnow) ==
    LET dirty == [obj EXCEPT !.is_read = TRUE, !.updated_at = utcnow]
    IN IF fail THEN [obj |-> dirty, row |-> row, ret |-> FALSE, commit |-> "failed"]
       ELSE [obj |-> dirty, row |-> dirty, ret |-> TRUE, commit |-> "ok"]

\* faulty variant: a message that is already read is left alone and nothing is reported
mark_as_read_skip_if_read(obj, row, fail, utcnow) ==
    LET dirty == [obj EXCEPT !.is_read = TRUE, !.updated_at = utcnow]
    IN IF obj.is_read THEN [obj |-> obj, row |-> row, ret |-> FALSE, commit |-> "none"]
       ELSE IF fail THEN [obj |-> row, row |-> row, ret |-> FALSE, commit |-> "failed"]
       ELSE [obj |-> dirty, row |-> dirty, ret |-> TRUE, commit |-> "ok"]

mark_as_read(obj, row, fail, utcnow) ==
    LET dirty == [obj EXCEPT !.is_read = TRUE, !.updated_at = utcnow]
    IN IF fail THEN [obj |-> row, row |-> row, ret |-> FALSE, commit |-> "failed"]
       ELSE [obj |-> dirty, row |-> dirty, ret |-> TRUE, commit |-> "ok"]

\* faulty variant: the body of _mark_as_read copied unchanged, is_read set to True
mark_as_unread_sets_read(obj, row, fail, utcnow) ==
    LET dirty == [obj EXCEPT !.is_read = TRUE, !.updated_at = utcnow]
    IN IF fail THEN [obj |-> row, row |-> row, ret |-> FALSE, commit |-> "failed"]
       ELSE [obj |-> dirty, row |-> dirty, ret |-> TRUE, commit |-> "ok"]

\* faulty variant: the change is left pending in the session, nothing is committed
mark_as_unread_no_commit(obj, row, fail, utcnow) ==
    LET dirty == [obj EXCEPT !.is_read = FALSE, !.updated_at = utcnow]
    IN [obj |-> dirty, row |-> row, ret |-> TRUE, commit |-> "none"]

mark_as_unread(obj, row, fail, utcnow) ==
    LET dirty == [obj EXCEPT !.is_read = FALSE, !.updated_at = utcnow]
    IN IF fail THEN [obj |-> row, row |-> row, ret |-> FALSE, commit |-> "failed"]
       ELSE [obj |-> dirty, row |-> dirty, ret |-> TRUE, commit |-> "ok"]

\* faulty variant: the label is appended without the membership test
move_message_always_append(obj, row, label, fail, utcnow) ==
    LET current_labels == IF Truthy(obj.labels)
                          THEN SplitOn(obj.labels.s, ",", <<>>) ELSE <<>>
    IN IF label.t # "str"
       THEN [obj |-> row, row |-> row, ret |-> FALSE, commit |-> "none"]
       ELSE
       LET dirty == [obj EXCEPT
                        !.labels = Str(Join(Append(current_labels, label.s), ",")),
                        !.updated_at = utcnow]
       IN IF fail THEN [obj |-> row, row |-> row, ret |-> FALSE, commit |-> "failed"]
          ELSE [obj |-> dirty, row |-> dirty, ret |-> TRUE, commit |-> "ok"]

\* faulty variant: the new label is put in front of the labels the message has
move_message_prepend(obj, row, label, fail, utcnow) ==
    LET current_labels == IF Truthy(obj.labels)
                          THEN SplitOn(obj.labels.s, ",", <<>>) ELSE <<>>
    IN IF label.t # "str"
       THEN [obj |-> row, row |-> row, ret |-> FALSE, commit |-> "none"]
       ELSE IF \E i \in DOMAIN current_labels : current_labels[i] = label.s
       THEN [obj |-> obj, row |-> row, ret |-> TRUE, commit |-> "none"]
       ELSE
       LET dirty == [obj EXCEPT
                        !.labels = Str(Join(<<label.s>> \o current_labels, ",")),
                        !.updated_at = utcnow]
       IN IF fail THEN [obj |-> row, row |-> row, ret |-> FALSE, commit |-> "failed"]
          ELSE [obj |-> dirty, row |-> dirty, ret |-> TRUE, commit |-> "ok"]

\* faulty variant: the new label string is set on the object and never committed
move_message_no_commit(obj, row, label, fail, utcnow) ==
    LET current_labels == IF Truthy(obj.labels)
                          THEN SplitOn(obj.labels.s, ",", <<>>) ELSE <<>>
    IN IF label.t # "str"
       THEN [obj |-> row, row |-> row, ret |-> FALSE, commit |-> "none"]
       ELSE [obj |-> [obj EXCEPT
                         !.labels = Str(Join(Append(current_labels, label.s), ",")),
                         !.updated_at = utcnow],
             row |-> row, ret |-> TRUE, commit |-> "none"]

\* label is action.get('value'): any JSON value
move_message(obj, row, label, fail, utcnow) ==
    LET current_labels == IF Truthy(obj.labels)
                          THEN SplitOn(obj.labels.s, ",", <<>>) ELSE <<>>
    IN IF label.t # "str"
       \* the label is appended and ','.join raises TypeError: caught, rollback
       THEN [obj |-> row, row |-> row, ret |-> FALSE, commit |-> "none"]
       ELSE IF \E i \in DOMAIN current_labels : current_labels[i] = label.s
       THEN [obj |-> obj, row |-> row, ret |-> TRUE, commit |-> "none"]
       ELSE
       LET dirty == [obj EXCEPT
                        !.labels = Str(Join(Append(current_labels, label.s), ",")),
                        !.updated_at = utcnow]
       IN IF fail THEN [obj |-> row, row |-> row, ret |-> FALSE, commit |-> "failed"]
          ELSE [obj |-> dirty, row |-> dirty, ret |-> TRUE, commit |-> "ok"]

\* the description strings of execute_actions, as records of their parts
Description(text, label, id) == [text |-> text, label |-> label, id |-> id]

\* faulty variant: an action of another type is reported as performed
apply_action_unknown_reported(action, obj, row, fail, utcnow) ==
    LET action_type == Get(action.type)
        action_value == Get(action.value)
        skip == [obj |-> obj, row |-> row, ret |-> TRUE, commit |-> "none"]
        other == [res |-> skip, desc |-> <<Description("Unknown action", <<>>, obj.id)>>,
                  op |-> "ignored"]
    IN IF action_type.t # "str" THEN other
       ELSE IF action_type.s = kMarkRead
       THEN [res |-> mark_as_read(obj, row, fail, utcnow),
             desc |-> <<Description("Marked as read", <<>>, obj.id)>>,
             op |-> "mark as read"]
       ELSE IF action_type.s = kMarkUnread
       THEN [res |-> mark_as_unread(obj, row, fail, utcnow),
             desc |-> <<Description("Marked as unread", <<>>, obj.id)>>,
             op |-> "mark as unread"]
       ELSE IF action_type.s = kMove
       THEN [res |-> move_message(obj, row, action_value, fail, utcnow),
             desc |-> <<Description("Moved to", action_value.s, obj.id)>>,
             op |-> "move message"]
       ELSE other

\* one iteration of the loop of execute_actions, for a dict action
apply_action(action, obj, row, fail, utcnow) ==
    LET action_type == Get(action.type)
        action_value == Get(action.value)
        skip == [obj |-> obj, row |-> row, ret |-> FALSE, commit |-> "none"]
    IN IF action_type.t # "str" THEN [res |-> skip, desc |-> <<>>, op |-> "ignored"]
       ELSE IF action_type.s = kMarkRead
       THEN [res |-> mark_as_read(obj, row, fail, utcnow),
             desc |-> <<Description("Marked as read", <<>>, obj.id)>>,
             op |-> "mark as read"]
       ELSE IF action_type.s = kMarkUnread
       THEN [res |-> mark_as_unread(obj, row, fail, utcnow),
             desc |-> <<Description("Marked as unread", <<>>, obj.id)>>,
             op |-> "mark as unread"]
       ELSE IF action_type.s = kMove
       THEN [res |-> move_message(obj, row, action_value, fail, utcnow),
             desc |-> <<Description("Moved to", action_value.s, obj.id)>>,
             op |-> "move message"]
       ELSE [res |-> skip, desc |-> <<>>, op |-> "ignored"]

\* faulty variant: the success flag of the record is left at its column default, True
log_rule_execution_default_success(log, rule_name, email_id, actions, success, fail) ==
    IF fail \/ rule_name.t \in {"null", "list"} THEN log
    ELSE Append(log, [rule_name |-> rule_name, email_id |-> email_id,
                      actions_taken |-> actions, success |-> TRUE])

\* faulty variant: every action of the rule is counted, performed or not
count_actions_all(count, actions, performed_actions) == count + Len(actions.items)

\* line 266: stats['actions_executed'] += len(actions)
count_actions(count, actions, performed_actions) == count + Len(performed_actions)

\* faulty variant: the record of the pair before is overwritten, not kept
log_rule_execution_overwrite(log, rule_name, email_id, actions, success, fail) ==
    LET rec == [rule_name |-> rule_name, email_id |-> email_id,
                actions_taken |-> actions, success |-> success]
    IN IF fail \/ rule_name.t \in {"null", "list"} THEN log
       ELSE IF log = <<>> THEN <<rec>>
       ELSE [log EXCEPT ![Len(log)] = rec]

\* RuleEngine._log_rule_execution: the new contents of rule_executions.
\* rule_name is NOT NULL (models.py), and a list cannot be bound to a String
\* column: with such a name the commit raises as well.
log_rule_execution(log, rule_name, email_id, actions, success, fail) ==
    IF fail \/ rule_name.t \in {"null", "list"} THEN log
    ELSE Append(log, [rule_name |-> rule_name, email_id |-> email_id,
                      actions_taken |-> actions, success |-> success])

\* faulty variant: only the missing file is caught, the JSONDecodeError gets out
load_rules_only_missing(source) ==
    IF source.kind = "missing" THEN Ok([t |-> "list", items |-> <<>>])
    ELSE IF source.kind = "malformed" THEN Raise("JSONDecodeError")
    ELSE IF source.doc.t # "dict" THEN Raise(errNoGet)
    ELSE Ok(GetDefault(source.doc.rules, [t |-> "list", items |-> <<>>]))

\* RuleEngine._load_rules on a rules source: the file is missing, is not
\* JSON, or holds a JSON document (doc.t = "dict" with key rules, or another
\* JSON value, which has no .get)
load_rules(source) ==
    IF source.kind \in {"missing", "malformed"} THEN Ok([t |-> "list", items |-> <<>>])
    ELSE IF source.doc.t # "dict" THEN Raise(errNoGet)
    ELSE Ok(GetDefault(source.doc.rules, [t |-> "list", items |-> <<>>]))
-----------------------------------------------------------------------------
(* the inputs: stored messages and rules documents *)

\* the largest number of stored messages
MaxEmails == 2
\* the largest number of commits that fail
MaxFailures == 1
\* the largest number of calls of process_emails on one engine
MaxRuns == 2
\* the largest number of conditions of a rule given to evaluate_rule alone
MaxConds == 3
\* the largest number of days the clock advances during a run
MaxTicks == 1
\* the day the run starts (2026-11-01 as an ordinal)
Now0 == 739921

Cond(f, p, v) == [t |-> "dict", field |-> f, predicate |-> p, value |-> v]
NonDictCond == [t |-> "str", field |-> Absent, predicate |-> Absent, value |-> Absent]
CondList(items) == [t |-> "list", items |-> items, n |-> Len(items)]
CondsAbsent == [t |-> "absent", items |-> <<>>, n |-> 0]
CondsNull == [t |-> "null", items |-> <<>>, n |-> 0]
CondsNum(k) == [t |-> "int", items |-> <<>>, n |-> k]

Action(ty, v) == [t |-> "dict", type |-> ty, value |-> v]
NonDictAction == [t |-> "str", type |-> Absent, value |-> Absent]
ActionList(items) == [t |-> "list", items |-> items]
ActionsAbsent == [t |-> "absent", items |-> <<>>]
ActionsNull == [t |-> "null", items |-> <<>>]

Rule(name, pred, conds, acts) ==
    [t |-> "dict", name |-> name, predicate |-> pred, conditions |-> conds,
     actions |-> acts]
NonDictRule ==
    [t |-> "str", name |-> Absent, predicate |-> Absent, conditions |-> CondsAbsent,
     actions |-> ActionsAbsent]

RuleList(items) == [t |-> "list", items |-> items]
RulesAbsent == [t |-> "absent", items |-> <<>>]
RulesNull == [t |-> "null", items |-> <<>>]

Email(id, from, to, subject, body, received, read, labels) ==
    [id |-> id, from_address |-> from, to_address |-> to, subject |-> subject,
     message_body |-> body, received_date |-> received, is_read |-> read,
     labels |-> labels, updated_at |-> received]

s_n == <<"n">>
s_N == <<"N">>
s_q == <<"q">>
s_z == <<"z">>
s_u == <<"u">>
s_L == <<"L">>
s_M == <<"M">>
s_I == <<"I">>
s_news == <<"N","e","w","s">>
s_hi == <<"h","i">>
s_nx == <<"n","@","x">>
s_ax == <<"a","@","x">>
s_30days == <<"3","0"," ","d","a","y","s">>
s_archive == <<"a","r","c","h","i","v","e">>
s_Newsletter == <<"N","e","w","s","l","e","t","t","e","r">>
s_Old == <<"O","l","d">>
s_Unread == <<"U","n","r","e","a","d">>
s_Bad == <<"B","a","d">>
s_Recent == <<"R","e","c","e","n","t">>
s_6days == <<"6"," ","d","a","y","s">>

\* a newsletter received 35 days ago, unread, in the inbox
T_newsletter(id) ==
    Email(id, Str(s_nx), Str(s_u), Str(s_news), Str(s_hi), Now0 - 35, FALSE, Str(s_I))
\* a read message received 5 days ago with the nullable columns NULL
T_plain(id) ==
    Email(id, Str(s_ax), Null, Null, Null, Now0 - 5, TRUE, Null)

Templates == {"newsletter", "plain"}
MakeEmail(tpl, id) == IF tpl = "newsletter" THEN T_newsletter(id) ELSE T_plain(id)

\* the contents of table emails: up to MaxEmails rows, ids 1..n
Stores ==
    UNION {{[i \in 1..n |-> MakeEmail(f[i], i)] : f \in [1..n -> Templates]} :
           n \in 0..MaxEmails}

\* the rules of the sample configuration and of the tests, and malformed ones
R_news ==
    Rule(Str(s_Newsletter), Str(kAll),
         CondList(<<Cond(Str(kFrom), Str(kContains), Str(s_n)),
                    Cond(Str(kSubject), Str(kContains), Str(s_N))>>),
         ActionList(<<Action(Str(kMarkRead), Str(<<>>)), Action(Str(kMove), Str(s_L))>>))
R_old ==
    Rule(Str(s_Old), Str(kAny),
         CondList(<<Cond(Str(kReceived), Str(kLessThan), Str(s_30days))>>),
         ActionList(<<Action(Str(kMarkRead), Str(<<>>))>>))
R_unread ==
    Rule(Str(s_Unread), Absent,
         CondList(<<Cond(Str(kMessage), Str(kNotEquals), Str(s_q))>>),
         ActionList(<<Action(Str(kMarkUnread), Absent), Action(Str(s_archive), Absent),
                      Action(Str(kMove), Str(s_L))>>))
\* a timestamp operator on a string field
R_bad ==
    Rule(Str(s_Bad), Str(kAll),
         CondList(<<Cond(Str(kFrom), Str(kLessThan), Str(s_30days))>>),
         ActionList(<<Action(Str(kMarkRead), Str(<<>>))>>))
\* an action list holding an entry that is no JSON object, and no name
R_actraise ==
    Rule(Absent, Str(kAny),
         CondList(<<Cond(Str(kTo), Str(kNotContains), Str(s_z))>>),
         ActionList(<<Action(Str(kMove), Str(s_M)), NonDictAction>>))
\* "name": null and "actions": null
R_nullname ==
    Rule(Null, Str(kAny),
         CondList(<<Cond(Str(kFrom), Str(kContains), Str(s_ax))>>),
         ActionsNull)

\* the messages of the last 6 days; its first action has no type
R_recent ==
    Rule(Str(s_Recent), Str(kAll),
         CondList(<<Cond(Str(kReceived), Str(kGreaterThan), Str(s_6days))>>),
         ActionList(<<Action(Absent, Str(s_L)), Action(Str(kMarkRead), Absent)>>))

Doc(rs) == [kind |-> "json", doc |-> [t |-> "dict", rules |-> rs]]

RuleSources ==
    { [kind |-> "missing", doc |-> [t |-> "null", rules |-> RulesAbsent]],
      [kind |-> "malformed", doc |-> [t |-> "null", rules |-> RulesAbsent]],
      [kind |-> "json", doc |-> [t |-> "list", rules |-> RulesAbsent]],
      Doc(RulesNull),
      Doc(RuleList(<<R_news>>)),
      Doc(RuleList(<<R_news, R_old>>)),
      Doc(RuleList(<<R_news, R_unread>>)),
      Doc(RuleList(<<R_bad, R_news>>)),
      Doc(RuleList(<<NonDictRule, R_news>>)),
      Doc(RuleList(<<R_actraise, R_old>>)),
      Doc(RuleList(<<R_nullname, R_unread>>)),
      Doc(RuleList(<<R_recent>>)) }
-----------------------------------------------------------------------------
(* RuleEngine.process_emails, one step per evaluation, action and audit write *)

NoInput == [kind |-> "none", condition |-> NonDictCond, rule |-> NonDictRule,
            email |-> T_plain(1), date |-> Null, value |-> Null, op |-> "less",
            now |-> Now0, payload |-> Absent, batch |-> <<>>]
NoOutput == [done |-> FALSE, exc |-> "", val |-> FALSE]
Returned(res) == [done |-> TRUE, exc |-> res.exc, val |-> res.val]
NoStep == [op |-> "init", commit |-> "none", ret |-> FALSE, e |-> 0, r |-> 0, a |-> 0]
Step(op, commit, ret, a) ==
    [op |-> op, commit |-> commit, ret |-> ret, e |-> ei, r |-> ri, a |-> a]

\* the engine after construction (rules loaded), over any stored messages
Init ==
    \E src \in RuleSources, db \in Stores :
        LET ld == load_rules(src)
        IN /\ rules_file = src
           /\ run = 0
           /\ before = db
           /\ base = 0
           /\ prev = <<>>
           /\ pc = IF ld.exc # "" THEN "ctor_raised" ELSE "start"
           /\ rules = IF ld.exc # "" THEN RulesAbsent ELSE ld.val
           /\ stored = db
           /\ emails = <<>>
           /\ audit = <<>>
           /\ stats = [emails_processed |-> 0, rules_matched |-> 0, actions_executed |-> 0]
           /\ ei = 0 /\ ri = 0 /\ ai = 0
           /\ performed = <<>>
           /\ exc = ""
           /\ now = Now0
           /\ failures = 0
           /\ last = NoStep
           /\ pairs = <<>>
           /\ cin = NoInput
           /\ cout = NoOutput
           /\ stored_count = 0 /\ session_new = <<>>

\* a commit may fail while the failure budget lasts
CommitOutcomes == IF failures < MaxFailures THEN {FALSE, TRUE} ELSE {FALSE}

\* the position after pair (ei, ri): the next rule, the next email, or the end
NextPc == IF ri < Len(rules.items) \/ ei < Len(emails) THEN "loop" ELSE "done"
NextEi == IF ri < Len(rules.items) THEN ei ELSE IF ei < Len(emails) THEN ei + 1 ELSE ei
NextRi == IF ri < Len(rules.items) THEN ri + 1 ELSE IF ei < Len(emails) THEN 1 ELSE ri

\* faulty variant: the rules are evaluated on the rows as they were when the run began
current_email_snapshot(objects, rows_at_start, i) == rows_at_start[i]

\* lines 258-261: the loop variable email is the Email object of the session,
\* the one the actions of the earlier rules have worked on
current_email(objects, rows_at_start, i) == objects[i]

\* lines 248-259: the stats, the query, and the entry into the loops
StartRun ==
    /\ run' = run + 1
    /\ before' = stored
    /\ base' = Len(audit)
    /\ prev' = pairs
    /\ pairs' = <<>>
    /\ UNCHANGED <<rules_file, fetcher>>
    /\ emails' = stored
    /\ stats' = [emails_processed |-> Len(stored), rules_matched |-> 0,
                 actions_executed |-> 0]
    /\ ei' = IF stored = <<>> THEN 0 ELSE 1
    /\ ri' = IF stored = <<>> \/ rules.t # "list" \/ rules.items = <<>> THEN 0 ELSE 1
    /\ pc' = IF stored = <<>> THEN "done"
             ELSE IF rules.t # "list" THEN "raised"      \* for rule in None
             ELSE IF rules.items = <<>> THEN "done"
             ELSE "loop"
    /\ exc' = IF stored # <<>> /\ rules.t # "list" THEN errNotIterable ELSE ""
    /\ last' = [NoStep EXCEPT !.op = "begin"]
    /\ UNCHANGED <<rules, stored, audit, ai, performed, now, failures, cin, cout>>

\* the first call of process_emails on the engine
Begin == pc = "start" /\ StartRun

\* process_emails is called again on the same engine when a run has returned
Rerun == pc = "done" /\ run < MaxRuns /\ StartRun

\* lines 261-262: evaluate_rule on the current pair
Evaluate ==
    /\ pc = "loop"
    /\ LET email == current_email(emails, before, ei)
           res == evaluate_rule(rules.items[ri], email, now)
       IN /\ cin' = [NoInput EXCEPT !.kind = "rule", !.rule = rules.items[ri],
                                     !.email = email, !.now = now]
          /\ cout' = Returned(res)
          /\ IF res.exc # ""
             THEN /\ pc' = "handler"
                  /\ exc' = res.exc
                  /\ UNCHANGED <<stats, ei, ri, pairs>>
                  /\ last' = Step("evaluate raised", "none", FALSE, 0)
             ELSE IF res.val
             THEN /\ pc' = "act"
                  /\ stats' = [stats EXCEPT !.rules_matched = @ + 1]
                  /\ UNCHANGED <<exc, ei, ri, pairs>>
                  /\ last' = Step("evaluate matched", "none", TRUE, 0)
             ELSE /\ pc' = NextPc /\ ei' = NextEi /\ ri' = NextRi
                  /\ pairs' = Append(pairs, [e |-> ei, r |-> ri, outcome |-> "nomatch",
                                             matched |-> FALSE, row |-> 0, err |-> "", descs |-> <<>>])
                  /\ UNCHANGED <<stats, exc>>
                  /\ last' = Step("evaluate no match", "none", FALSE, 0)
    /\ ai' = 1
    /\ performed' = <<>>
    /\ UNCHANGED <<rules, stored, emails, audit, now, failures>>
    /\ UNCHANGED <<hist, fetcher>>

\* lines 162-179: one iteration of the loop of execute_actions
ExecAction ==
    /\ pc = "act"
    /\ LET actions == GetDefault(rules.items[ri].actions, ActionList(<<>>))
       IN /\ actions.t # "list" \/ ai <= Len(actions.items)
          /\ IF actions.t # "list"
             THEN /\ pc' = "handler" /\ exc' = errNotIterable
                  /\ last' = Step("actions raised", "none", FALSE, ai)
                  /\ UNCHANGED <<stored, emails, performed, ai, failures>>
             ELSE IF actions.items[ai].t # "dict"
             THEN /\ pc' = "handler" /\ exc' = errNoGet
                  /\ last' = Step("actions raised", "none", FALSE, ai)
                  /\ UNCHANGED <<stored, emails, performed, ai, failures>>
             ELSE \E fail \in CommitOutcomes :
                  LET out == apply_action(actions.items[ai], emails[ei], stored[ei],
                                          fail, now)
                  IN /\ emails' = [emails EXCEPT ![ei] = out.res.obj]
                     /\ stored' = [stored EXCEPT ![ei] = out.res.row]
                     /\ performed' = IF out.res.ret THEN performed \o out.desc
                                     ELSE performed
                     /\ failures' = IF out.res.commit = "failed" THEN failures + 1
                                    ELSE failures
                     /\ last' = Step(out.op, out.res.commit, out.res.ret, ai)
                     /\ ai' = ai + 1
                     /\ UNCHANGED <<pc, exc>>
    /\ UNCHANGED <<rules, audit, stats, ei, ri, now, pairs, cin, cout>>
    /\ UNCHANGED <<hist, fetcher>>

\* lines 266-270: the count of the descriptions and the audit record of a match
LogSuccess ==
    /\ pc = "act"
    /\ LET rule == rules.items[ri]
           actions == GetDefault(rule.actions, ActionList(<<>>))
       IN /\ actions.t = "list" /\ ai > Len(actions.items)
          /\ stats' = [stats EXCEPT !.actions_executed = count_actions(@, actions, performed)]
          /\ \E fail \in CommitOutcomes :
               /\ audit' = log_rule_execution(audit, GetDefault(rule.name, Str(kUnnamedRule)),
                                              emails[ei].id, performed, TRUE, fail)
               /\ failures' = IF fail THEN failures + 1 ELSE failures
               /\ last' = Step("log success", IF audit' = audit THEN "failed" ELSE "ok",
                               audit' # audit, 0)
               /\ pairs' = Append(pairs, [e |-> ei, r |-> ri, outcome |-> "matched",
                                          matched |-> TRUE,
                                          row |-> IF audit' = audit THEN 0 ELSE Len(audit'),
                                          err |-> "", descs |-> performed])
    /\ pc' = NextPc /\ ei' = NextEi /\ ri' = NextRi
    /\ UNCHANGED <<rules, stored, emails, ai, performed, exc, now, cin, cout>>
    /\ UNCHANGED <<hist, fetcher>>

\* lines 272-275: the handler of the loop body
LogFailure ==
    /\ pc = "handler"
    /\ LET rule == rules.items[ri]
       IN IF rule.t # "dict"
          \* rule.get raises again, inside the handler: process_emails raises
          THEN /\ pc' = "raised"
               /\ exc' = errNoGet
               /\ last' = Step("handler raised", "none", FALSE, 0)
               /\ UNCHANGED <<audit, failures, pairs, ei, ri>>
          ELSE \E fail \in CommitOutcomes :
               /\ audit' = log_rule_execution(audit, GetDefault(rule.name, Str(kUnnamedRule)),
                                              emails[ei].id,
                                              <<Description(exc, <<>>, 0)>>, FALSE, fail)
               /\ failures' = IF fail THEN failures + 1 ELSE failures
               /\ last' = Step("log failure", IF audit' = audit THEN "failed" ELSE "ok",
                               audit' # audit, 0)
               /\ pairs' = Append(pairs, [e |-> ei, r |-> ri, outcome |-> "raised",
                                          matched |-> last.op = "actions raised",
                                          row |-> IF audit' = audit THEN 0 ELSE Len(audit'),
                                          err |-> exc, descs |-> performed])
               /\ pc' = NextPc /\ ei' = NextEi /\ ri' = NextRi
               /\ exc' = ""
    /\ UNCHANGED <<rules, stored, emails, stats, ai, performed, now, cin, cout>>
    /\ UNCHANGED <<hist, fetcher>>

\* the clock moves on between two pairs
Tick ==
    /\ pc = "loop"
    /\ now < Now0 + MaxTicks
    /\ now' = now + 1
    /\ UNCHANGED <<pc, rules, stored, emails, audit, stats, ei, ri, ai, performed, exc,
                   failures, last, pairs, cin, cout>>
    /\ UNCHANGED <<hist, fetcher>>

Next == Begin \/ Evaluate \/ ExecAction \/ LogSuccess \/ LogFailure \/ Tick

Spec == Init /\ [][Next]_vars

\* runs of the engine one after the other, in which every commit succeeds
NextRuns ==
    \/ Begin
    \/ Rerun
    \/ Evaluate
    \/ ExecAction /\ failures' = failures
    \/ LogSuccess /\ failures' = failures
    \/ LogFailure /\ failures' = failures
    \/ Tick

SpecRuns == Init /\ [][NextRuns]_vars
-----------------------------------------------------------------------------
(* the evaluators on their own: a condition, a rule or a date comparison   *)
(* is drawn, and one step applies the code to it                           *)

s_50DAYS == <<"5","0"," ","D","A","Y","S">>
s_1month == <<"1"," ","m","o","n","t","h">>
s_2Months == <<"2"," ","M","o","n","t","h","s">>
s_bad == <<"b","a","d">>
s_xdays == <<"x"," ","d","a","y","s">>
s_30weeks == <<"3","0"," ","w","e","e","k","s">>
s_30daysago == <<"3","0"," ","d","a","y","s"," ","a","g","o">>
s_pad30days == <<" "," ","3","0"," "," "," ","d","a","y","s"," ">>
s_30 == <<"3","0">>
s_7p5days == <<"7",".","5"," ","d","a","y","s">>
s_999999days == <<"9","9","9","9","9","9"," ","d","a","y","s">>
s_bigdays == <<"1","0","0","0","0","0","0","0","0","0"," ","d","a","y","s">>
s_bigmonths == <<"4","0","0","0","0","0","0","0"," ","m","o","n","t","h","s">>
s_minus1day == <<"-","1"," ","d","a","y">>
s_35days == <<"3","5"," ","d","a","y","s">>
s_Sender == <<"S","e","n","d","e","r">>
s_Contains == <<"C","o","n","t","a","i","n","s">>
s_NEWS == <<"N","E","W","S">>
s_all == <<"a","l","l">>

HFields ==
    { Str(kFrom), Str(kTo), Str(kSubject), Str(kMessage), Str(kReceived),
      Str(s_Sender), Str(<<>>), Absent, Null, List(1), Num(5) }

HPreds ==
    { Str(kContains), Str(kNotContains), Str(kEquals), Str(kNotEquals),
      Str(kLessThan), Str(kGreaterThan), Str(s_Contains), Str(<<>>), Absent, Num(1) }

Durations ==
    { Str(s_30days), Str(s_50DAYS), Str(s_35days), Str(s_1month), Str(s_2Months),
      Str(s_minus1day), Str(s_pad30days), Str(s_999999days), Str(s_bigdays),
      Str(s_bigmonths),
      Str(s_bad), Str(s_xdays), Str(s_30weeks), Str(s_30daysago), Str(s_30),
      Str(s_7p5days) }

HValues ==
    Durations \cup
    { Str(s_n), Str(s_NEWS), Str(s_nx), Str(<<>>), Absent, Null, Num(0), Num(5),
      List(0), List(2) }

HEmails == {T_newsletter(1), T_plain(1)}

HDates == { DateTime(Now0 - 35), DateTime(Now0 - 30), DateTime(Now0 - 5),
            Str(s_nx), Str(<<>>) }

\* conditions that hold for one message and not the other, for none, and
\* one that raises (a timestamp operator on the sender)
HConds ==
    { Cond(Str(kFrom), Str(kContains), Str(s_n)),
      Cond(Str(kTo), Str(kEquals), Str(s_z)),
      Cond(Str(kFrom), Str(kLessThan), Str(s_30days)) }

\* the values of key conditions: lists of up to MaxConds conditions, and
\* values that are no list
HCondLists ==
    { CondList(cs) : cs \in UNION {[1..n -> HConds] : n \in 0..MaxConds} }
    \cup {CondsAbsent, CondsNull, CondsNum(0), CondsNum(1)}

\* the values of key predicate
s_Some == <<"S","o","m","e">>
HRulePreds == {Str(kAll), Str(kAny), Absent, Str(s_all), Str(s_Some), Null}

HRules ==
    {R_news, R_old, R_unread, R_bad, R_actraise, R_nullname, NonDictRule}
    \cup {Rule(Str(s_Old), p, cs, ActionList(<<>>)) : p \in HRulePreds, cs \in HCondLists}

HClock == Now0..(Now0 + MaxTicks)

\* the values of a relabel action: a new label, one the message has, the
\* empty label, one holding the delimiter, and values that are no string
s_ab == <<"a",",","b">>
HLabels == {Str(s_L), Str(s_I), Str(<<>>), Str(s_ab), Null, Num(5)}

HarnessInputs ==
    {[NoInput EXCEPT !.kind = "condition", !.condition = c, !.email = m, !.now = t] :
        c \in {Cond(f, p, v) : f \in HFields, p \in HPreds, v \in HValues}
              \cup {NonDictCond},
        m \in HEmails, t \in HClock}
    \cup
    {[NoInput EXCEPT !.kind = "dates", !.date = d, !.value = v, !.op = o, !.now = t] :
        d \in HDates, v \in HValues \ {Absent}, o \in {"less", "greater"}, t \in HClock}
    \cup
    {[NoInput EXCEPT !.kind = "rule", !.rule = r, !.email = m, !.now = t] :
        r \in HRules, m \in HEmails, t \in HClock}
    \cup
    {[NoInput EXCEPT !.kind = "relabel", !.value = v, !.email = m, !.now = t] :
        v \in HLabels, m \in HEmails, t \in HClock}

InitEval ==
    /\ pc = "harness"
    /\ rules = RulesAbsent
    /\ stored = <<>> /\ emails = <<>> /\ audit = <<>>
    /\ stats = [emails_processed |-> 0, rules_matched |-> 0, actions_executed |-> 0]
    /\ ei = 0 /\ ri = 0 /\ ai = 0
    /\ performed = <<>>
    /\ exc = ""
    /\ now = Now0
    /\ failures = 0
    /\ last = NoStep
    /\ pairs = <<>>
    /\ cin \in HarnessInputs
    /\ cout = NoOutput
    /\ rules_file = [kind |-> "missing", doc |-> [t |-> "null", rules |-> RulesAbsent]]
    /\ run = 0 /\ before = <<>> /\ base = 0 /\ prev = <<>>
    /\ stored_count = 0 /\ session_new = <<>>

UnchangedButCout ==
    UNCHANGED <<pc, rules, stored, emails, audit, stats, ei, ri, ai, performed, exc,
                now, failures, last, pairs, cin, rules_file, run, before, base, prev,
                stored_count, session_new>>

EvalCondition ==
    /\ pc = "harness" /\ ~cout.done /\ cin.kind = "condition"
    /\ cout' = Returned(evaluate_condition(cin.condition, cin.email, cin.now))
    /\ UnchangedButCout

CompareDates ==
    /\ pc = "harness" /\ ~cout.done /\ cin.kind = "dates"
    /\ cout' = Returned(compare_dates(cin.date, cin.value, cin.op, cin.now))
    /\ UnchangedButCout

EvalRule ==
    /\ pc = "harness" /\ ~cout.done /\ cin.kind = "rule"
    /\ cout' = Returned(evaluate_rule(cin.rule, cin.email, cin.now))
    /\ UnchangedButCout

\* execute_actions on a relabel action, twice on the same message; performed
\* keeps the label string after each call
Relabel ==
    /\ pc = "harness" /\ cin.kind = "relabel" /\ ai < 2
    /\ LET obj == IF ai = 0 THEN cin.email ELSE emails[1]
           out == apply_action(Action(Str(kMove), cin.value), obj, obj, FALSE, cin.now)
       IN /\ emails' = <<out.res.obj>>
          /\ stored' = <<out.res.row>>
          /\ performed' = Append(performed, out.res.obj.labels)
          /\ cout' = Returned(Ok(out.res.ret))
    /\ ai' = ai + 1
    /\ UNCHANGED <<pc, rules, audit, stats, ei, ri, exc, now, failures, last, pairs, cin,
                   hist, fetcher>>

NextEval == EvalCondition \/ CompareDates \/ EvalRule \/ Relabel

SpecEval == InitEval /\ [][NextEval]_vars
-----------------------------------------------------------------------------
(* the claims about the processing loop, checked under Spec *)

\* the success = true records appended in the current run
SuccessRows == {k \in DOMAIN audit : k > base /\ audit[k].success}
MatchedPairs == {p \in DOMAIN pairs : pairs[p].matched}
\* the matched pairs whose actions all returned and whose record was committed
RecordedMatches == {p \in MatchedPairs : pairs[p].outcome = "matched" /\ pairs[p].row # 0}

RECURSIVE SumDescs(_)
SumDescs(ps) ==
    IF ps = <<>> THEN 0
    ELSE (IF Head(ps).outcome = "matched" THEN Len(Head(ps).descs) ELSE 0)
         + SumDescs(Tail(ps))

\* the action list of the current rule and the action about to run
CurActions == GetDefault(rules.items[ri].actions, ActionList(<<>>))
AtAction == pc = "act" /\ CurActions.t = "list" /\ ai <= Len(CurActions.items)
CurAction == CurActions.items[ai]
\* the label set of a message, read from its delimited column
LabelsOf(email) ==
    IF email.labels.t = "str" /\ email.labels.s # <<>>
    THEN {SplitOn(email.labels.s, ",", <<>>)[i] :
             i \in DOMAIN SplitOn(email.labels.s, ",", <<>>)}
    ELSE {}
Mutators == {"mark as read", "mark as unread", "move message"}

\* C1: when evaluate_rule or execute_actions raises for a (message, rule)
\* pair, the pair gets exactly one audit record with success = false whose
\* action list is the error text alone, and the loop goes on: the handler
\* never raises, and a run that ends has handled every pair.  (Stated for
\* runs in which no commit was made to fail.)
C1_FailedPairRecordedAndRunContinues ==
    /\ ~(pc = "raised" /\ last.op = "handler raised")
    /\ failures = 0 =>
         \A p \in DOMAIN pairs :
            pairs[p].outcome = "raised" =>
              /\ pairs[p].row # 0
              /\ audit[pairs[p].row].success = FALSE
              /\ audit[pairs[p].row].email_id = emails[pairs[p].e].id
              /\ audit[pairs[p].row].actions_taken = <<Description(pairs[p].err, <<>>, 0)>>
              /\ \A q \in DOMAIN pairs :
                    (pairs[q].e = pairs[p].e /\ pairs[q].r = pairs[p].r) => q = p
    /\ pc = "done" /\ rules.t = "list" => Len(pairs) = Len(emails) * Len(rules.items)

\* C2: process_emails never aborts: whatever the stored messages, the loaded
\* rules and the commits that fail, the run never ends by raising.
C2_NeverAborts == pc # "raised"

\* C3 (as claimed): at the end of a run the success = true audit records
\* number rules_matched, which is the number of pairs whose rule matched, and
\* a message that matched k rules has exactly k such records.
C3_RecordsEqualMatches ==
    pc = "done" =>
      /\ Cardinality(SuccessRows) = stats.rules_matched
      /\ stats.rules_matched = Cardinality(MatchedPairs)
      /\ \A e \in DOMAIN emails :
            Cardinality({k \in SuccessRows : audit[k].email_id = emails[e].id})
              = Cardinality({p \in MatchedPairs : pairs[p].e = e})

\* C3 (amended): at the end of a run rules_matched is the number of pairs
\* whose rule matched, and each message has one success = true audit record
\* for each of its matched pairs whose execute_actions returned and whose
\* audit write was committed, and no other success = true record.
C3_RecordsOfCommittedMatches ==
    pc = "done" =>
      /\ stats.rules_matched = Cardinality(MatchedPairs)
      /\ \A p \in RecordedMatches :
            /\ audit[pairs[p].row].success
            /\ audit[pairs[p].row].email_id = emails[pairs[p].e].id
            /\ \A q \in RecordedMatches : pairs[q].row = pairs[p].row => q = p
      /\ \A e \in DOMAIN emails :
            Cardinality({k \in SuccessRows : audit[k].email_id = emails[e].id})
              = Cardinality({p \in RecordedMatches : pairs[p].e = e})

C3_Witness ==
    /\ pc = "done"
    /\ stats.rules_matched = 2
    /\ \E e \in DOMAIN emails :
          Cardinality({k \in SuccessRows : audit[k].email_id = emails[e].id}) = 2

\* C4: actions_executed is the sum, over the pairs that matched and whose
\* execute_actions returned, of the number of descriptions returned; one
\* newsletter under the one rule with mark-read and relabel, no commit
\* failing, ends with processed 1, matched 1, actions 2.
C4_ActionsExecutedIsSumOfDescriptions ==
    /\ pc \in {"loop", "done"} => stats.actions_executed = SumDescs(pairs)
    /\ (/\ pc = "done" /\ failures = 0
        /\ rules = RuleList(<<R_news>>)
        /\ Len(emails) = 1 /\ emails[1].from_address = Str(s_nx))
       => stats = [emails_processed |-> 1, rules_matched |-> 1, actions_executed |-> 2]

C4_Witness ==
    /\ pc = "done" /\ failures = 0
    /\ rules = RuleList(<<R_news>>)
    /\ Len(emails) = 1 /\ emails[1].from_address = Str(s_nx)
    /\ emails[1].is_read /\ s_L \in LabelsOf(emails[1])
    /\ stats.actions_executed = 2 /\ Len(audit) = 1

\* C5: in execute_actions, when the commit of an action fails, the failure
\* is caught and rolled back: the object and the stored row of every message
\* are as before the action, no description is added, nothing is raised, and
\* execute_actions goes on with the next action of the list.
C5_FailedActionRolledBack ==
    [][(pc = "act" /\ last'.op \in Mutators /\ last'.commit = "failed")
        => /\ emails' = emails
           /\ stored' = stored
           /\ performed' = performed
           /\ pc' = "act" /\ exc' = "" /\ ai' = ai + 1]_vars

\* a mark-read whose commit failed, and then the relabel of the same rule applied
C5_Witness ==
    /\ pc = "act" /\ pairs = <<>> /\ failures = 1
    /\ last.op = "move message" /\ last.commit = "ok" /\ last.a = 2
    /\ performed = <<Description("Moved to", s_L, emails[ei].id)>>
    /\ ~emails[ei].is_read

\* C6: a relabel whose target is already in the label set of the message
\* leaves the labels (and the whole message) unchanged, commits nothing,
\* raises nothing, and is reported in the description list all the same.
C6_RelabelPresentIsNoOp ==
    [][(/\ AtAction
        /\ CurAction.t = "dict"
        /\ Get(CurAction.type) = Str(kMove)
        /\ Get(CurAction.value).t = "str"
        /\ Get(CurAction.value).s \in LabelsOf(emails[ei]))
        => /\ emails' = emails
           /\ stored' = stored
           /\ last'.commit = "none"
           /\ pc' = "act" /\ exc' = ""
           /\ performed' = Append(performed,
                  Description("Moved to", Get(CurAction.value).s, emails[ei].id))]_vars

C6_Witness ==
    /\ pc = "act" /\ last.op = "move message" /\ last.commit = "none" /\ last.ret
    /\ performed # <<>>
    /\ performed[Len(performed)].label \in LabelsOf(emails[ei])

-----------------------------------------------------------------------------
(* the claims about the evaluators, checked under SpecEval *)

StringOps == {Str(kContains), Str(kNotContains), Str(kEquals), Str(kNotEquals)}
DateOps == {Str(kLessThan), Str(kGreaterThan)}
KnownFields == {Str(kFrom), Str(kTo), Str(kSubject), Str(kMessage), Str(kReceived)}
ConditionDone == cout.done /\ cin.kind = "condition" /\ cin.condition.t = "dict"
ReturnedFalse == cout.exc = "" /\ ~cout.val

\* the durations of the inputs that are '<integer> <unit>' with a unit among
\* day, days, month, months in any case
WellFormedDurations ==
    { Str(s_30days), Str(s_50DAYS), Str(s_35days), Str(s_1month), Str(s_2Months),
      Str(s_minus1day), Str(s_pad30days), Str(s_999999days), Str(s_bigdays),
      Str(s_bigmonths) }

\* C7: a condition with less-than or greater-than on a field other than the
\* received timestamp (From, To, Subject, Message, or an unknown name) is
\* false and raises nothing, whatever its value.
C7_DateOperatorOnOtherFieldIsFalse ==
    (/\ ConditionDone
     /\ cin.condition.predicate \in DateOps
     /\ cin.condition.field.t = "str"
     /\ cin.condition.field # Str(kReceived))
    => ReturnedFalse

\* C8: the date comparator returns false and raises nothing for every
\* duration that is not '<integer> <unit>' with unit day, days, month or
\* months: a wrong number of tokens, a count that is no integer, another unit.
C8_MalformedDurationIsFalse ==
    (cout.done /\ cin.kind = "dates" /\ cin.value \notin WellFormedDurations)
    => ReturnedFalse

C8_Witness ==
    /\ cout.done /\ cin.kind = "dates" /\ cin.value = Str(s_30weeks)
    /\ cin.date = DateTime(Now0 - 5) /\ cin.op = "greater"
    /\ ReturnedFalse

\* C9 (as claimed): a condition on a field name that is not a known field is
\* false under contains, does not contain, equals and does not equal, for
\* every non-empty value.
C9_UnknownFieldFailsEveryOperator ==
    (/\ ConditionDone
     /\ cin.condition.field = Str(s_Sender)
     /\ cin.condition.predicate \in StringOps
     /\ cin.condition.value.t = "str" /\ cin.condition.value.s # <<>>)
    => ReturnedFalse

\* C9 (amended): such a field reads as the empty string: with a non-empty
\* string value, contains and equals are false, and does not contain and
\* does not equal are true; nothing is raised.
C9_UnknownFieldReadsAsEmpty ==
    (/\ ConditionDone
     /\ cin.condition.field = Str(s_Sender)
     /\ cin.condition.predicate \in StringOps
     /\ cin.condition.value.t = "str" /\ cin.condition.value.s # <<>>)
    => /\ cout.exc = ""
       /\ cout.val = (cin.condition.predicate \in {Str(kNotContains), Str(kNotEquals)})

C9_Witness ==
    /\ ConditionDone
    /\ cin.condition = Cond(Str(s_Sender), Str(kNotContains), Str(s_nx))
    /\ cout.exc = "" /\ cout.val

\* C10: a condition whose field, predicate or value is absent or empty is
\* false and raises nothing, for every message and whatever the other two
\* entries are.
EmptyEntry(v) == v \in {Absent, Null, Str(<<>>), List(0)}
C10_MissingEntryIsFalse ==
    (/\ ConditionDone
     /\ \/ EmptyEntry(cin.condition.field)
        \/ EmptyEntry(cin.condition.predicate)
        \/ EmptyEntry(cin.condition.value))
    => ReturnedFalse

\* the value is absent, and the field is one that the lookup cannot hash
C10_Witness ==
    /\ ConditionDone
    /\ cin.condition = Cond(List(1), Str(kContains), Absent)
    /\ ReturnedFalse

-----------------------------------------------------------------------------
(* the claims about evaluate_rule, checked under SpecEval *)

RuleDone == cout.done /\ cin.kind = "rule" /\ cin.rule.t = "dict"
\* the conditions of the rule evaluated, when they are a list
RuleConds == cin.rule.conditions.items
\* what _evaluate_condition gives for the i-th condition of the rule evaluated
CondResult(i) == evaluate_condition(RuleConds[i], cin.email, cin.now)
\* every condition of the rule evaluated has a result: none raises
AllCondsReturn == \A i \in DOMAIN RuleConds : CondResult(i).exc = ""

\* C11: a rule whose condition list is empty or absent matches no message:
\* evaluate_rule returns false and raises nothing, under predicate All,
\* under predicate Any and under every other value of the predicate.
C11_NoConditionsNeverMatches ==
    (RuleDone /\ cin.rule.conditions \in {CondList(<<>>), CondsAbsent})
    => ReturnedFalse

\* all([]) is True in Python: the empty list under All is the case the test guards
C11_Witness ==
    /\ RuleDone
    /\ cin.rule.conditions = CondList(<<>>) /\ cin.rule.predicate = Str(kAll)
    /\ cin.email = T_newsletter(1)
    /\ ReturnedFalse

\* C12: for a rule with predicate All and N >= 1 conditions, evaluate_rule
\* returns true exactly when every one of the N conditions, evaluated on its
\* own, is true; so when the conditions all have a result and (at least) one
\* of them is false, the rule is false.
C12_AllIsConjunction ==
    (/\ RuleDone
     /\ cin.rule.predicate = Str(kAll)
     /\ cin.rule.conditions.t = "list" /\ RuleConds # <<>>)
    => /\ (cout.exc = "" /\ cout.val)
           <=> \A i \in DOMAIN RuleConds : CondResult(i).exc = "" /\ CondResult(i).val
       /\ (AllCondsReturn /\ \E i \in DOMAIN RuleConds : ~CondResult(i).val)
           => ReturnedFalse

\* three conditions, the second one failing for this message
C12_Witness ==
    /\ RuleDone
    /\ cin.rule.predicate = Str(kAll)
    /\ cin.rule.conditions =
          CondList(<<Cond(Str(kFrom), Str(kContains), Str(s_n)),
                     Cond(Str(kTo), Str(kEquals), Str(s_z)),
                     Cond(Str(kFrom), Str(kContains), Str(s_n))>>)
    /\ cin.email = T_newsletter(1)
    /\ ReturnedFalse

-----------------------------------------------------------------------------
(* the claims about the operators, checked under SpecEval *)

UpperChar(c) ==
    IF \E i \in DOMAIN LowerCase : LowerCase[i] = c
    THEN UpperCase[CHOOSE i \in DOMAIN LowerCase : LowerCase[i] = c]
    ELSE c
Upper(s) == [i \in DOMAIN s |-> UpperChar(s[i])]
UpperValue(v) == IF v.t = "str" THEN Str(Upper(v.s)) ELSE v
\* the message with the content of its string fields in upper case
UpperEmail(email) ==
    [email EXCEPT !.from_address = UpperValue(@), !.to_address = UpperValue(@),
                  !.subject = UpperValue(@), !.message_body = UpperValue(@)]

\* C14: for each of the five fields From, To, Subject, Message and Received
\* Date/Time, a condition with one of the four string operators and a
\* non-empty string value returns a boolean (nothing is raised), and the
\* boolean is the same when the value is put in upper case and when the
\* content of the message is put in upper case.
C14_StringOperatorsIgnoreCase ==
    (/\ ConditionDone
     /\ cin.condition.field \in KnownFields
     /\ cin.condition.predicate \in StringOps
     /\ cin.condition.value.t = "str" /\ cin.condition.value.s # <<>>)
    => /\ cout.exc = ""
       /\ cout = Returned(evaluate_condition(
                     [cin.condition EXCEPT !.value = UpperValue(@)], cin.email, cin.now))
       /\ cout = Returned(evaluate_condition(
                     cin.condition, UpperEmail(cin.email), cin.now))

\* the days a well-formed duration stands for: its count, times 30 for months
DurationDays(v) ==
    CASE v = Str(s_30days) -> 30
      [] v = Str(s_50DAYS) -> 50
      [] v = Str(s_35days) -> 35
      [] v = Str(s_1month) -> 30 * 1
      [] v = Str(s_2Months) -> 30 * 2
      [] v = Str(s_minus1day) -> 0 - 1
      [] v = Str(s_pad30days) -> 30
      [] v = Str(s_999999days) -> 999999
      [] v = Str(s_bigdays) -> 1000000000
      [] v = Str(s_bigmonths) -> 30 * 40000000

\* C15: for a well-formed duration of count N and a timestamp, the date
\* comparator returns a boolean: with the threshold at the current time
\* minus N days (unit day, days) or minus 30*N days (unit month, months),
\* direction less gives true exactly when the timestamp is before the
\* threshold and direction greater exactly when it is after it, so a
\* timestamp at the threshold satisfies neither; a message received 35
\* days ago is less than "30 days" and is not less than "50 days".
C15_ThresholdIsNowMinusDuration ==
    (/\ cout.done /\ cin.kind = "dates"
     /\ cin.value \in WellFormedDurations
     /\ cin.date.t = "datetime")
    => /\ cout.exc = ""
       /\ cin.op = "less"
            => (cout.val <=> cin.date.n < cin.now - DurationDays(cin.value))
       /\ cin.op = "greater"
            => (cout.val <=> cin.date.n > cin.now - DurationDays(cin.value))
       /\ (cin.date.n = cin.now - 35 /\ cin.op = "less" /\ cin.value = Str(s_30days))
            => cout.val
       /\ (cin.date.n = cin.now - 35 /\ cin.op = "less" /\ cin.value = Str(s_50DAYS))
            => ~cout.val

-----------------------------------------------------------------------------
(* the claims about loading and about runs, checked under Spec and SpecRuns *)

\* C16: when the rules file is missing or is not a JSON document, loading
\* gives the empty rule list and raises nothing, and the engine runs: the
\* run returns, with rules_matched 0, no audit record written and every
\* message as it was.
C16_NoSourceGivesNoRules ==
    rules_file.kind \in {"missing", "malformed"}
    => /\ pc \notin {"ctor_raised", "raised"}
       /\ rules = RuleList(<<>>)
       /\ stats.rules_matched = 0 /\ stats.actions_executed = 0
       /\ audit = <<>>
       /\ stored = before /\ emails \in {<<>>, before}
       /\ pc = "done" => stats.emails_processed = Len(stored)

\* a run over stored messages has returned on an engine built on a file that is not JSON
C16_Witness ==
    /\ rules_file.kind = "malformed"
    /\ pc = "done" /\ run >= 1
    /\ Len(stored) >= 1 /\ stats.emails_processed = Len(stored)
    /\ stats.rules_matched = 0 /\ audit = <<>>

\* a step of the loop that calls evaluate_rule (the clock stands still in it)
EvaluateStep == pc = "loop" /\ now' = now
EvaluateOps == {"evaluate raised", "evaluate matched", "evaluate no match"}

\* C17: within a run, evaluate_rule is always given the live record of the
\* message: the read-state and the labels it is passed are the ones the
\* actions of the earlier rules have left (and committed), not the ones the
\* message had when the run began.
C17_LaterRuleSeesLiveRecord ==
    [][EvaluateStep
        => /\ cin'.kind = "rule" /\ cin'.rule = rules.items[ri]
           /\ cin'.email = emails[ei]
           /\ cin'.email.is_read = stored[ei].is_read
           /\ cin'.email.labels = stored[ei].labels]_vars

\* the second rule is evaluated on a message that the first rule has marked
\* read and relabelled
C17_Witness ==
    /\ last.op \in EvaluateOps /\ last.r = 2
    /\ cin.email.id = before[last.e].id
    /\ cin.email.is_read /\ ~before[last.e].is_read
    /\ s_L \in LabelsOf(cin.email) /\ s_L \notin LabelsOf(before[last.e])

\* the pair was handled in the run and its rule matched
MatchedIn(ps, e, r) == \E q \in DOMAIN ps : ps[q].e = e /\ ps[q].r = r /\ ps[q].matched
\* the rule has a greater-than condition: its threshold moves with the clock
HasGreaterThan(rule) ==
    /\ rule.t = "dict" /\ rule.conditions.t = "list"
    /\ \E i \in DOMAIN rule.conditions.items :
          /\ rule.conditions.items[i].t = "dict"
          /\ rule.conditions.items[i].predicate = Str(kGreaterThan)
\* a mark-read is about to run on a message that is read already
MarkReadOnRead ==
    /\ AtAction /\ CurAction.t = "dict"
    /\ Get(CurAction.type) = Str(kMarkRead)
    /\ emails[ei].is_read
\* the step reports the mark-read as performed
MarkReadReported ==
    /\ last'.op = "mark as read" /\ last'.ret /\ last'.commit = "ok"
    /\ emails'[ei].is_read /\ stored'[ei].is_read
    /\ performed' = Append(performed, Description("Marked as read", <<>>, emails[ei].id))
    /\ pc' = "act" /\ ai' = ai + 1
\* a run after the first has returned: prev holds the pairs of the run before it
SecondRunDone == pc = "done" /\ run >= 2

\* C18 (as claimed): when a second run over the same store has returned,
\* every pair that matched in the first run has matched again; and a
\* mark-read on a message that is read already reports success like any
\* other, its description being counted in actions_executed.  (Checked
\* under SpecRuns: no commit fails.)
C18_SecondRunMatchesAgain ==
    [][/\ SecondRunDone'
           => \A p \in DOMAIN prev' :
                 prev'[p].matched => MatchedIn(pairs', prev'[p].e, prev'[p].r)
       /\ (MarkReadOnRead /\ last'.commit # "failed") => MarkReadReported
       /\ pc' = "done" => stats'.actions_executed = SumDescs(pairs')]_vars

\* C18 (amended): the same, for the pairs whose rule has no greater-than
\* condition; a greater-than condition that held in the first run may fail
\* in the second, because its threshold has moved on with the clock.
C18_SecondRunMatchesAgainUnlessExpired ==
    [][/\ SecondRunDone'
           => \A p \in DOMAIN prev' :
                 (prev'[p].matched /\ ~HasGreaterThan(rules.items[prev'[p].r]))
                 => MatchedIn(pairs', prev'[p].e, prev'[p].r)
       /\ (MarkReadOnRead /\ last'.commit # "failed") => MarkReadReported
       /\ pc' = "done" => stats'.actions_executed = SumDescs(pairs')]_vars

\* the old-message rule has matched the newsletter in both runs, and in the
\* second run, on the message already read, its mark-read was performed
C18_Witness ==
    /\ SecondRunDone
    /\ \E p \in DOMAIN prev, q \in DOMAIN pairs :
          /\ prev[p].outcome = "matched" /\ pairs[q].outcome = "matched"
          /\ prev[p].e = pairs[q].e /\ prev[p].r = pairs[q].r
          /\ rules.items[pairs[q].r] = R_old
          /\ before[pairs[q].e].is_read
          /\ pairs[q].descs = <<Description("Marked as read", <<>>, emails[pairs[q].e].id)>>
          /\ stats.actions_executed >= 1

\* the messages that no rule has matched in the current run
Unmatched == {e \in DOMAIN emails : \A q \in DOMAIN pairs : pairs[q].e = e => ~pairs[q].matched}
\* the audit records written in the current run for message e
RecordsOf(e) == {k \in DOMAIN audit : k > base /\ audit[k].email_id = emails[e].id}

\* C19: a step that evaluates a rule changes no message and writes no
\* record; and when a run has returned, a message that no rule matched has
\* the read-state and the labels it had when the run began, and the run has
\* written no audit record for it.
C19_UnmatchedMessageUntouched ==
    [][/\ EvaluateStep => (emails' = emails /\ stored' = stored /\ audit' = audit)
       /\ pc' = "done"
            => \A e \in Unmatched' :
                  /\ emails'[e].is_read = before'[e].is_read
                  /\ emails'[e].labels = before'[e].labels
                  /\ stored'[e] = before'[e]
                  /\ RecordsOf(e)' = {}]_vars

\* an action entry whose type is none of the three the executor knows
UnknownKind(action) ==
    /\ action.t = "dict"
    /\ Get(action.type) \notin {Str(kMarkRead), Str(kMarkUnread), Str(kMove)}
\* the actions of the current rule that are of a known type
KnownActions == {i \in DOMAIN CurActions.items : ~UnknownKind(CurActions.items[i])}

\* C20: the step of execute_actions on an action of another type (or of no
\* type) changes nothing but the position in the list: no message, no
\* row, no description, no record, no exception; so the actions after it
\* run from the state the actions before it left, and when the list is
\* done only the known actions can have been described and counted.
C20_UnknownActionIgnored ==
    [][/\ (AtAction /\ UnknownKind(CurAction))
           => /\ last'.op = "ignored" /\ last'.commit = "none"
              /\ emails' = emails /\ stored' = stored /\ audit' = audit
              /\ performed' = performed /\ stats' = stats
              /\ failures' = failures
              /\ pc' = "act" /\ exc' = "" /\ ai' = ai + 1
       /\ (pc = "act" /\ last'.op = "log success")
           => /\ Len(performed) <= Cardinality(KnownActions)
              /\ stats'.actions_executed = stats.actions_executed + Len(performed)]_vars

\* the relabel that follows the ignored action of the rule has been applied
\* after the mark-unread that precedes it
C20_Witness ==
    /\ pc = "act" /\ rules.items[ri] = R_unread
    /\ last.op = "move message" /\ last.a = 3 /\ last.commit = "ok"
    /\ performed = <<Description("Marked as unread", <<>>, emails[ei].id),
                     Description("Moved to", s_L, emails[ei].id)>>
    /\ ~emails[ei].is_read /\ s_L \in LabelsOf(emails[ei])

-----------------------------------------------------------------------------
(* the claims about persistence and the audit log, checked under Spec *)

\* the run is inside process_emails, or has left it
Running == pc \in {"loop", "act", "handler", "done", "raised"} /\ run >= 1

\* C21: every mutation is committed on its own: between two steps of a run
\* (before and after every action, before every audit write, at the end)
\* the committed row of every message equals the object in memory, in its
\* read-state, its labels and everything else; nothing is pending.
C21_NothingPending ==
    Running
    => /\ Len(emails) = Len(stored)
       /\ \A e \in DOMAIN emails :
             /\ emails[e].is_read = stored[e].is_read
             /\ emails[e].labels = stored[e].labels
             /\ emails[e] = stored[e]

\* between the two actions of a rule: the first is committed (the row has
\* changed), and an earlier commit has failed and was rolled back
C21_Witness ==
    /\ pc = "act" /\ ai = 2 /\ failures = 1
    /\ last.op = "mark as unread" /\ last.commit = "ok"
    /\ before[ei].is_read /\ ~stored[ei].is_read /\ ~emails[ei].is_read

\* the pairs handled so far that have a record
Recorded == {p \in DOMAIN pairs : pairs[p].row # 0}

\* C22: the audit log is append-only and holds at most one record per
\* (message, rule) pair: a step either leaves the log as it is or appends
\* one record, for the pair it completes; the records of the run belong to
\* distinct pairs, every pair is handled once, and the record of a pair
\* has success = true exactly when the pair matched and its actions
\* returned, so no pair has a record of each kind.
C22_AuditAppendOnly ==
    [][/\ \/ audit' = audit
          \/ /\ Len(audit') = Len(audit) + 1
             /\ SubSeq(audit', 1, Len(audit)) = audit
             /\ Len(pairs') = Len(pairs) + 1
             /\ pairs'[Len(pairs')].row = Len(audit')
             /\ pairs'[Len(pairs')].e = ei /\ pairs'[Len(pairs')].r = ri
             /\ audit'[Len(audit')].email_id = emails[ei].id
       /\ \A p, q \in DOMAIN pairs' :
             (pairs'[p].e = pairs'[q].e /\ pairs'[p].r = pairs'[q].r) => p = q
       /\ \A p, q \in Recorded' : pairs'[p].row = pairs'[q].row => p = q
       /\ Len(audit') - base' = Cardinality(Recorded')
       /\ \A p \in Recorded' :
             audit'[pairs'[p].row].success = (pairs'[p].outcome = "matched")]_vars

\* a run has written a success record and a failure record, for two pairs
C22_Witness ==
    /\ pc = "done" /\ Len(audit) >= 2
    /\ \E p, q \in Recorded :
          /\ audit[pairs[p].row].success /\ ~audit[pairs[q].row].success
          /\ pairs[p].e = pairs[q].e /\ pairs[p].r # pairs[q].r

-----------------------------------------------------------------------------
(* EmailFetcher: _extract_message_body and store_emails *)

\* the URL-safe alphabet of base64.urlsafe_b64decode, values 0..63
Base64Alphabet ==
  <<"A", "B", "C", "D", "E", "F", "G", "H", "I", "J", "K", "L", "M", "N", "O", "P",
    "Q", "R", "S", "T", "U", "V", "W", "X", "Y", "Z", "a", "b", "c", "d", "e", "f",
    "g", "h", "i", "j", "k", "l", "m", "n", "o", "p", "q", "r", "s", "t", "u", "v",
    "w", "x", "y", "z", "0", "1", "2", "3", "4", "5", "6", "7", "8", "9", "-", "_">>

\* chr(b) for the bytes of letters, digits, space, '<' and '>'
AsciiChar(b) ==
    CASE b \in 65..90 -> UpperCase[b - 64]
      [] b \in 97..122 -> LowerCase[b - 96]
      [] b \in 48..57 -> Digits[b - 47]
      [] b = 32 -> " "
      [] b = 60 -> "<"
      [] b = 62 -> ">"

\* base64.urlsafe_b64decode(data) for padded data: each group of four
\* characters gives three bytes, less one for every '='
RECURSIVE urlsafe_b64decode(_)
urlsafe_b64decode(data) ==
    IF Len(data) < 4 THEN <<>>
    ELSE LET v(i) == IF data[i] = "=" THEN 0
                     ELSE (CHOOSE k \in DOMAIN Base64Alphabet :
                              Base64Alphabet[k] = data[i]) - 1
             n == v(1) * 262144 + v(2) * 4096 + v(3) * 64 + v(4)
             pad == Cardinality({i \in 1..4 : data[i] = "="})
             bytes == <<n \div 65536, (n \div 256) % 256, n % 256>>
         IN SubSeq(bytes, 1, 3 - pad) \o urlsafe_b64decode(SubSeq(data, 5, Len(data)))

\* bytes.decode('utf-8', errors='ignore') for the ASCII bytes above and
\* for bytes that begin no UTF-8 sequence (0xF8..0xFF), which are dropped
RECURSIVE decode_ignore(_)
decode_ignore(bytes) ==
    IF bytes = <<>> THEN <<>>
    ELSE (IF Head(bytes) >= 248 THEN <<>> ELSE <<AsciiChar(Head(bytes))>>)
         \o decode_ignore(Tail(bytes))

\* part['body'].get('data', '') and, when it is truthy, its decoded text
PartData(part) == GetDefault(part.data, Str(<<>>))
PartText(part) == decode_ignore(urlsafe_b64decode(PartData(part).s))

\* lines 122-131: the loop over payload['parts'], body being the text so far
RECURSIVE extract_parts(_, _)
extract_parts(parts, body) ==
    IF parts = <<>> THEN body
    ELSE LET part == Head(parts)
             next == IF part.mimeType = "text/plain"
                     THEN (IF Truthy(PartData(part)) THEN body \o PartText(part)
                           ELSE body)
                     ELSE IF part.mimeType = "text/html" /\ body = <<>>
                     THEN (IF Truthy(PartData(part)) THEN PartText(part) ELSE body)
                     ELSE body
         IN extract_parts(Tail(parts), next)

\* EmailFetcher._extract_message_body; payload.parts is Absent or a sequence,
\* payload.data is payload['body'].get('data')
extract_message_body(payload) ==
    IF payload.has_parts THEN extract_parts(payload.parts, <<>>)
    ELSE IF payload.mimeType \in {"text/plain", "text/html"}
              /\ Truthy(PartData(payload))
    THEN PartText(payload)
    ELSE <<>>

Part(mimeType, data) == [mimeType |-> mimeType, data |-> data]
Multipart(parts) ==
    [mimeType |-> "multipart/alternative", has_parts |-> TRUE, parts |-> parts,
     data |-> Absent]
SinglePart(mimeType, data) ==
    [mimeType |-> mimeType, has_parts |-> FALSE, parts |-> <<>>, data |-> data]

MaxParts == 3

\* 'hi', 'x', '<b>' and the byte 0xFF in URL-safe base64
d_hi == <<"a","G","k","=">>
d_x == <<"e","A","=","=">>
d_b == <<"P","G","I","-">>
d_ff == <<"_","w","=","=">>

Parts ==
    { Part("text/plain", Str(d_hi)), Part("text/plain", Str(d_x)),
      Part("text/plain", Str(d_ff)), Part("text/plain", Str(<<>>)),
      Part("text/html", Str(d_b)), Part("text/html", Absent),
      Part("image/png", Str(d_x)) }

Payloads ==
    {Multipart(ps) : ps \in UNION {[1..n -> Parts] : n \in 0..MaxParts}}
    \cup {SinglePart(p.mimeType, p.data) : p \in Parts}

\* an email dictionary as fetch_emails builds it: the keys it has and the
\* values under them (row[k] holds the value of key k when k is in keys)
EmailData(keys, row) == [keys |-> keys, row |-> row]
EmailKeys ==
    {"id", "from_address", "to_address", "subject", "message_body", "received_date",
     "is_read", "labels"}
FullData(row) == EmailData(EmailKeys, row)

\* models.py 17-22: the NOT NULL columns an INSERT needs (of those modelled)
NotNullKeys == {"from_address", "received_date"}
Insertable(email_data) == NotNullKeys \subseteq email_data.keys

\* Email(**email_data) as the row its INSERT writes
NewRow(email_data, utcnow) == [email_data.row EXCEPT !.updated_at = utcnow]

\* lines 158-161: setattr for every key of the dictionary, then updated_at
UpdatedRow(existing, email_data, utcnow) ==
    [f \in DOMAIN existing |->
        IF f = "updated_at" THEN utcnow
        ELSE IF f \in email_data.keys THEN email_data.row[f]
        ELSE existing[f]]

RECURSIVE NewRows(_, _)
NewRows(pending, utcnow) ==
    IF pending = <<>> THEN <<>>
    ELSE <<NewRow(Head(pending), utcnow)>> \o NewRows(Tail(pending), utcnow)

\* Session.flush: the INSERTs of the pending objects; IntegrityError when one
\* of them lacks a NOT NULL column
FlushFails(pending) == \E i \in DOMAIN pending : ~Insertable(pending[i])

\* Session.rollback: the transaction's rows and the pending objects are dropped
Rollback(committed) == [rows |-> committed, pending |-> <<>>, counted |-> 0]

\* lines 152-174, one iteration of the loop of store_emails: rows are the
\* rows the open transaction sees, pending the objects added and not flushed.
\* The query of line 154 flushes the pending objects first (the session of
\* models.py 48 has autoflush on).
store_one(rows, pending, committed, email_data, utcnow) ==
    IF "id" \notin email_data.keys THEN Rollback(committed)         \* KeyError
    ELSE IF FlushFails(pending) THEN Rollback(committed)            \* IntegrityError
    ELSE LET flushed == rows \o NewRows(pending, utcnow)
             hit == {i \in DOMAIN flushed : flushed[i].id = email_data.row.id}
         IN IF hit # {}
            THEN LET i == CHOOSE i \in hit : TRUE
                 IN [rows |-> [flushed EXCEPT ![i] = UpdatedRow(@, email_data, utcnow)],
                     pending |-> <<>>, counted |-> 1]
            ELSE [rows |-> flushed, pending |-> <<email_data>>, counted |-> 1]

MaxBatch == 3

\* the dictionaries of a batch: two complete ones, one without 'id', and the
\* one of test_store_emails_error_handling, which has nothing but 'id'
BatchData ==
    { FullData(T_newsletter(1)), FullData(T_plain(2)),
      EmailData(EmailKeys \ {"id"}, T_plain(0)),
      EmailData({"id"}, T_plain(3)) }

\* Gmail lists every message id once
DistinctIds(batch) ==
    \A i, j \in DOMAIN batch :
        ("id" \in batch[i].keys /\ "id" \in batch[j].keys
            /\ batch[i].row.id = batch[j].row.id) => i = j

Batches ==
    {b \in UNION {[1..n -> BatchData] : n \in 0..MaxBatch} : DistinctIds(b)}

FetcherInputs ==
    {[NoInput EXCEPT !.kind = "payload", !.payload = p] : p \in Payloads}
    \cup {[NoInput EXCEPT !.kind = "store", !.batch = b] : b \in Batches}

\* a fetcher with a call of _extract_message_body or store_emails ahead; the
\* table is empty or holds message 1 with other contents than the batch has
InitFetch ==
    /\ cin \in FetcherInputs
    /\ stored \in {<<>>, <<T_plain(1)>>}
    /\ emails = stored
    /\ pc = IF cin.kind = "payload" THEN "extract"
            ELSE IF cin.batch = <<>> THEN "commit" ELSE "store"
    /\ ei = IF cin.kind = "store" /\ cin.batch # <<>> THEN 1 ELSE 0
    /\ stored_count = 0 /\ session_new = <<>>
    /\ cout = NoOutput
    /\ now = Now0 /\ failures = 0
    /\ rules = RulesAbsent /\ audit = <<>>
    /\ stats = [emails_processed |-> 0, rules_matched |-> 0, actions_executed |-> 0]
    /\ ri = 0 /\ ai = 0 /\ performed = <<>> /\ exc = ""
    /\ last = NoStep /\ pairs = <<>>
    /\ rules_file = [kind |-> "missing", doc |-> [t |-> "null", rules |-> RulesAbsent]]
    /\ run = 0 /\ before = stored /\ base = 0 /\ prev = <<>>

UnchangedEngine ==
    UNCHANGED <<rules, audit, stats, ri, ai, performed, exc, now, last, pairs, cin,
                hist>>

ExtractBody ==
    /\ pc = "extract"
    /\ cout' = Returned(Ok(Str(extract_message_body(cin.payload))))
    /\ pc' = "returned"
    /\ UNCHANGED <<stored, emails, ei, failures, fetcher>>
    /\ UnchangedEngine

\* lines 152-174: the iteration for emails[ei]
StoreEmail ==
    /\ pc = "store"
    /\ LET step == store_one(emails, session_new, stored, cin.batch[ei], now)
       IN /\ emails' = step.rows
          /\ session_new' = step.pending
          /\ stored_count' = stored_count + step.counted
    /\ ei' = ei + 1
    /\ pc' = IF ei < Len(cin.batch) THEN "store" ELSE "commit"
    /\ UNCHANGED <<stored, cout, failures>>
    /\ UnchangedEngine

\* lines 176-183: the commit of the batch and the return
CommitBatch ==
    /\ pc = "commit"
    /\ \E fail \in CommitOutcomes :
          /\ failures' = IF fail THEN failures + 1 ELSE failures
          /\ IF fail \/ FlushFails(session_new)
             THEN /\ stored' = stored
                  /\ stored_count' = 0
             ELSE /\ stored' = emails \o NewRows(session_new, now)
                  /\ stored_count' = stored_count
    /\ emails' = stored'
    /\ session_new' = <<>>
    /\ cout' = Returned(Ok(stored_count'))
    /\ pc' = "returned"
    /\ UNCHANGED ei
    /\ UnchangedEngine

NextFetch == ExtractBody \/ StoreEmail \/ CommitBatch

SpecFetch == InitFetch /\ [][NextFetch]_vars

(* the claims about the fetcher, checked under SpecFetch *)

\* the dictionary's values are in a committed row
Persisted(email_data) ==
    /\ "id" \in email_data.keys
    /\ \E k \in DOMAIN stored :
          /\ stored[k].id = email_data.row.id
          /\ \A f \in email_data.keys : stored[k][f] = email_data.row[f]

StoreReturned == pc = "returned" /\ cin.kind = "store"

\* C23: store_emails returns the number of emails of the batch that are
\* persisted when it returns; an email whose processing raised is not among
\* them, and after a failed final commit the result is 0 and none is persisted.
C23_ReturnsPersistedCount ==
    StoreReturned
    => cout.val = Cardinality({i \in DOMAIN cin.batch : Persisted(cin.batch[i])})

ExtractReturned == pc = "returned" /\ cin.kind = "payload"

\* the parts of a type that carry data
PartsWithData(parts, mimeType) ==
    {i \in DOMAIN parts : parts[i].mimeType = mimeType /\ Truthy(PartData(parts[i]))}

\* the texts of the text/plain parts that carry data, one after the other
RECURSIVE PlainConcat(_)
PlainConcat(parts) ==
    IF parts = <<>> THEN <<>>
    ELSE (IF Head(parts).mimeType = "text/plain" /\ Truthy(PartData(Head(parts)))
          THEN PartText(Head(parts)) ELSE <<>>)
         \o PlainConcat(Tail(parts))

\* C24: for a multipart payload _extract_message_body returns the
\* concatenation of the text/plain parts that carry data when there is one,
\* and the content of an HTML part only when no text/plain part carries
\* data, in whatever order the parts come.
C24_PlainTextPreferred ==
    (ExtractReturned /\ cin.payload.has_parts)
    => LET parts == cin.payload.parts
       IN IF PartsWithData(parts, "text/plain") # {}
          THEN cout.val.s = PlainConcat(parts)
          ELSE PartsWithData(parts, "text/html") # {}
               => \E i \in PartsWithData(parts, "text/html") :
                     cout.val.s = PartText(parts[i])

(* the claims about the effects of a run, checked under Spec *)

\* the step writes the success = false record of the current pair
FailureLogged ==
    pc = "handler" /\ Len(audit') = Len(audit) + 1 /\ ~audit'[Len(audit')].success

\* the pairs handled before the current one that were counted in rules_matched
PriorMatches == Cardinality({p \in DOMAIN pairs : pairs[p].matched})

\* the object after the first k actions of the list, every commit succeeding
RECURSIVE RunActions(_, _, _, _)
RunActions(obj, items, k, utcnow) ==
    IF k = 0 THEN obj
    ELSE LET sofar == RunActions(obj, items, k - 1, utcnow)
         IN IF items[k].t # "dict" THEN sofar
            ELSE apply_action(items[k], sofar, sofar, FALSE, utcnow).res.obj

\* the action list of the current rule, empty when it is no list
CurItems ==
    LET actions == GetDefault(rules.items[ri].actions, ActionList(<<>>))
    IN IF actions.t = "list" THEN actions.items ELSE <<>>

\* C25 as stated: a pair recorded as failed left no effect: when its
\* success = false record is written, the message's read-state and labels
\* are those it had just before the pair was processed (cin.email, the
\* object evaluate_rule was called on), and the pair added nothing to
\* rules_matched.
C25_FailedPairLeftNoEffect ==
    [][FailureLogged
       => /\ emails'[ei].is_read = cin.email.is_read
          /\ emails'[ei].labels = cin.email.labels
          /\ stored'[ei].is_read = cin.email.is_read
          /\ stored'[ei].labels = cin.email.labels
          /\ stats'.rules_matched = PriorMatches]_vars

\* C25, amended: the handler undoes nothing and leaves nothing pending. A
\* pair recorded as failed because evaluate_rule raised left no effect and
\* added nothing to rules_matched; a pair recorded as failed because
\* execute_actions raised had matched: it added one to rules_matched, and
\* the message keeps what the actions before the raising one committed.
C25_FailedPairKeepsCompletedActions ==
    [][FailureLogged
       => /\ emails' = emails /\ stored' = stored
          /\ stored[ei] = emails[ei]
          /\ IF last.op = "evaluate raised"
             THEN /\ emails[ei] = cin.email
                  /\ stats'.rules_matched = PriorMatches
             ELSE /\ stats'.rules_matched = PriorMatches + 1
                  /\ failures = 0
                     => emails[ei] = RunActions(cin.email, CurItems, ai - 1, now)]_vars

\* a failure record has been written for a pair whose first action had
\* relabelled the message
C25_Witness ==
    /\ last.op = "log failure" /\ last.commit = "ok"
    /\ pairs # <<>> /\ pairs[Len(pairs)].matched /\ pairs[Len(pairs)].row = Len(audit)
    /\ ~audit[Len(audit)].success
    /\ emails[pairs[Len(pairs)].e].labels # cin.email.labels
    /\ stored[pairs[Len(pairs)].e].labels = emails[pairs[Len(pairs)].e].labels

\* C26: applying the relabel action twice with the same label leaves the
\* label string as it is after applying it once, for every label value.
C26_RelabelIdempotent ==
    (pc = "harness" /\ cin.kind = "relabel" /\ ai = 2) => performed[2] = performed[1]

\* the label list of a message, as _move_message reads it (line 227)
LabelList(email) ==
    IF Truthy(email.labels) THEN SplitOn(email.labels.s, ",", <<>>) ELSE <<>>

StartsWith(list, prefix) ==
    Len(prefix) <= Len(list) /\ SubSeq(list, 1, Len(prefix)) = prefix

\* C27: labels only grow: in every state of a run, the label list of each
\* message, in memory and as committed, starts with the label list the
\* message had when the run began, in the same order.
C27_LabelsOnlyGrow ==
    Running
    => /\ Len(emails) = Len(before) /\ Len(stored) = Len(before)
       /\ \A e \in DOMAIN before :
             /\ StartsWith(LabelList(emails[e]), LabelList(before[e]))
             /\ StartsWith(LabelList(stored[e]), LabelList(before[e]))

\* a message that had a label has been given a second one behind it, after
\* a relabel whose commit had failed
C27_Witness ==
    /\ Running /\ failures = 1
    /\ \E e \in DOMAIN before :
          /\ LabelList(before[e]) = <<s_I>>
          /\ LabelList(stored[e]) = <<s_I, s_L>>

\* the entries of a rule's action list that execute_actions reaches: those
\* before the first entry that is no JSON object, none when it is no list
RanItems(rule) ==
    LET actions == GetDefault(rule.actions, ActionList(<<>>))
    IN IF actions.t # "list" THEN <<>>
       ELSE IF \A i \in DOMAIN actions.items : actions.items[i].t = "dict"
       THEN actions.items
       ELSE SubSeq(actions.items, 1,
                   (CHOOSE i \in DOMAIN actions.items :
                       /\ actions.items[i].t # "dict"
                       /\ \A j \in 1..(i - 1) : actions.items[j].t = "dict") - 1)

\* the read-state after the mark actions of a list, in list order
RECURSIVE LastMark(_, _)
LastMark(items, read) ==
    IF items = <<>> THEN read
    ELSE LET type == Get(Head(items).type)
         IN LastMark(Tail(items),
                     IF type = Str(kMarkRead) THEN TRUE
                     ELSE IF type = Str(kMarkUnread) THEN FALSE
                     ELSE read)

\* the read-state of message e after the mark actions of the rules that
\* matched it, the pairs being in rule-list order
RECURSIVE ReadAfter(_, _, _)
ReadAfter(ps, e, read) ==
    IF ps = <<>> THEN read
    ELSE ReadAfter(Tail(ps), e,
                   IF Head(ps).e = e /\ Head(ps).matched
                   THEN LastMark(RanItems(rules.items[Head(ps).r]), read)
                   ELSE read)

\* C28: after a run in which no commit failed, the read-state of a message
\* is the value set by the last mark-as-read or mark-as-unread action that
\* ran among the rules that matched it, in rule-list order and then
\* action-list order, and its value before the run when no such action ran.
C28_LastMarkActionWins ==
    (pc = "done" /\ run >= 1 /\ failures = 0)
    => \A e \in DOMAIN emails :
          /\ emails[e].is_read = ReadAfter(pairs, e, before[e].is_read)
          /\ stored[e].is_read = ReadAfter(pairs, e, before[e].is_read)

\* an unread message was marked read by the first rule and unread again by
\* the second, and a read one was marked unread
C28_Witness ==
    /\ pc = "done" /\ failures = 0
    /\ rules = RuleList(<<R_news, R_unread>>)
    /\ \E e, f \in DOMAIN emails :
          /\ ~before[e].is_read /\ ~emails[e].is_read
          /\ \E p, q \in DOMAIN pairs :
                /\ pairs[p].e = e /\ pairs[q].e = e /\ pairs[p].r = 1 /\ pairs[q].r = 2
                /\ pairs[p].outcome = "matched" /\ pairs[q].outcome = "matched"
          /\ before[f].is_read /\ ~emails[f].is_read

\* a message with the fields no condition reads set to fixed values
Neutral(email) == [email EXCEPT !.is_read = FALSE, !.labels = Null, !.updated_at = 0]

\* the rules of the list that match a message's From, To, Subject, body and
\* timestamp, whatever their place in the list
MatchingRules(email) ==
    {r \in DOMAIN rules.items :
        LET res == evaluate_rule(rules.items[r], Neutral(email), Now0)
        IN res.exc = "" /\ res.val}

RunEnded == pc \in {"done", "raised"} /\ run >= 1

\* C29: whether a rule matches a message depends only on From, To, Subject,
\* body and received timestamp, which no action changes; so the pairs that
\* match in a run, and rules_matched, are given by the rules and the rows at
\* the start alone: they do not depend on the order of the rules or on the
\* read-state and labels.
C29_MatchesIndependentOfOrder ==
    RunEnded
    => /\ \A e \in DOMAIN before :
             /\ emails[e].from_address = before[e].from_address
             /\ emails[e].to_address = before[e].to_address
             /\ emails[e].subject = before[e].subject
             /\ emails[e].message_body = before[e].message_body
             /\ emails[e].received_date = before[e].received_date
             /\ {rules.items[pairs[p].r] : p \in {q \in MatchedPairs : pairs[q].e = e}}
                = {rules.items[r] : r \in MatchingRules(before[e])}
       /\ stats.rules_matched
          = Cardinality({<<e, r>> \in (DOMAIN before) \X (DOMAIN rules.items) :
                            r \in MatchingRules(before[e])})

\* C29, amended: whether a rule matches a message depends on From, To,
\* Subject, body and received timestamp, which no action changes, and on the
\* clock at the evaluation: every evaluation of a run returns what the rule
\* gives on the row as it was when the run began, with any read-state and
\* labels, at the clock of the call, and rules_matched counts the
\* evaluations that returned true.
C29_MatchDependsOnContentAndClock ==
    [][/\ EvaluateStep
          => /\ cout' = Returned(evaluate_rule(rules.items[ri], Neutral(before[ei]), now))
             /\ stats'.rules_matched
                = stats.rules_matched + (IF cout'.exc = "" /\ cout'.val THEN 1 ELSE 0)
       /\ \A e \in DOMAIN emails' :
             /\ emails'[e].from_address = before'[e].from_address
             /\ emails'[e].to_address = before'[e].to_address
             /\ emails'[e].subject = before'[e].subject
             /\ emails'[e].message_body = before'[e].message_body
             /\ emails'[e].received_date = before'[e].received_date]_vars

\* a rule has matched a message whose read-state an earlier rule had changed
C29_Witness ==
    /\ pc = "act" /\ last.op = "evaluate matched" /\ ri = 2
    /\ cin.email = emails[ei]
    /\ emails[ei].is_read # before[ei].is_read
    /\ cout.val = TRUE

-----------------------------------------------------------------------------
(* the claim about the predicate of a rule, checked under SpecEval *)

\* C30: evaluate_rule treats a rule without predicate entry as All and
\* every predicate value other than exactly 'All' as Any: when the rule has
\* conditions and each of them has a result, the rule does not raise, it is
\* true exactly when all of them (no entry, 'All') or one of them (any other
\* value) is true, and so under every predicate value it matches when
\* all its conditions are true.
C30_PredicateDefaultAndFallback ==
    (/\ RuleDone
     /\ cin.rule.conditions.t = "list" /\ RuleConds # <<>>
     /\ AllCondsReturn)
    => /\ cout.exc = ""
       /\ cout.val <=> IF cin.rule.predicate \in {Absent, Str(kAll)}
                       THEN \A i \in DOMAIN RuleConds : CondResult(i).val
                       ELSE \E i \in DOMAIN RuleConds : CondResult(i).val
       /\ (\A i \in DOMAIN RuleConds : CondResult(i).val) => cout.val

\* one condition true and one false, under 'all': answered like Any, true
C30_Witness ==
    /\ RuleDone
    /\ cin.rule.conditions =
          CondList(<<Cond(Str(kFrom), Str(kContains), Str(s_n)),
                     Cond(Str(kTo), Str(kEquals), Str(s_z))>>)
    /\ cin.email = T_newsletter(1)
    /\ cin.rule.predicate = Str(s_all) /\ cout.exc = "" /\ cout.val

====
